---- MODULE Spec2Model ----
(***************************************************************************)
(* State-machine model of rpatchur: the chunk allocator of the GRF builder *)
(* (gruf/src/grf/dyn_alloc.rs), the GRF builder and reader                 *)
(* (gruf/src/grf/builder.rs, reader.rs) and the patch orchestrator         *)
(* (rpatchur/src/patcher/core.rs).                                         *)
(*                                                                         *)
(* Three specifications share the module: SpecAlloc drives the allocator   *)
(* alone, SpecGrf drives a GrfArchiveBuilder over a byte-addressed output  *)
(* file, SpecOrch drives the orchestrator over successive runs.            *)
(***************************************************************************)
EXTENDS Integers, Sequences, FiniteSets, Bags, TLC

(***************************************************************************)
(* Program constants.                                                      *)
(***************************************************************************)
\* GRF_HEADER_MAGIC.len() + 0x1E
GRF_HEADER_SIZE == 46

(***************************************************************************)
(* Bounds of the model.                                                    *)
(***************************************************************************)
\* largest size passed to alloc_chunk / realloc_chunk
MaxSize == 2
\* largest number of outstanding allocations
MaxAllocs == 3
\* largest number of allocator calls in one behaviour
MaxOps == 5
\* largest number of lines of the patch list the server returns
MaxPatches == 2
\* largest patch index the server lists
MaxIndex == 2
\* number of orchestrator runs (process starts) in one behaviour
MaxRuns == 2
\* largest number of commands the UI sends during one run
MaxSent == 3
\* longest data handed to add_file
MaxData == 1
\* add_file / remove_file calls before finish
MaxCalls == 4
\* explicit finish calls on one builder
MaxFinishes == 2
\* entries of an archive on disk start at most this far after the header
MaxOffset == 3
MaxWaiting == 2
\* append_file_update / append_file_removal calls before finish
MaxAppends == 3
\* calls of apply_patch_to_grf on the same target
MaxAttempts == 2
\* number of values the checksum of the model takes
ChecksumModulus == 65536

VARIABLES
    \* ---- AvailableChunkList (dyn_alloc.rs:13-17)
    end_offset,     \* u64
    sizes,          \* BTreeSet<(usize, u64)>: set of <<size, offset>>
    chunks,         \* BTreeMap<u64, AvailableChunk>: function offset -> size
    \* ---- observers of the allocator's callers
    allocated,      \* bag of <<offset, size>>: the outstanding allocations
    nops,           \* number of allocator calls made
    last            \* the last allocator call, its arguments, result and pre-state

allocVars == <<end_offset, sizes, chunks, allocated, nops, last>>

VARIABLES
    \* ---- the orchestrator task (patcher/core.rs)
    pc,             \* where the task is: idle, fetch, download, apply, done
    rx,             \* the command channel: commands sent and not yet received
    check_integrity,\* config.patching.check_integrity
    cache,          \* the cache file holding PatcherCache
    patch_list,     \* the patch list after parsing and filtering
    started,        \* number of downloads taken from the stream so far
    in_flight,      \* positions of patch_list being downloaded
    vec,            \* the PendingPatch collected so far, in completion order
    pending_patch_queue, \* vec sorted by index, as given to apply_patches
    patch_number,   \* number of loop iterations of apply_patches completed
    ui,             \* the statuses dispatched to the UI in this run
    \* ---- observers of a run
    runs,           \* number of runs started
    sent,           \* number of commands sent during this run
    cache0,         \* the cache file when the run started
    applied,        \* indices handed to apply_patch_to_grf / apply_patch_to_disk
    fully_applied,  \* indices whose apply step returned Ok
    mutated,        \* an apply step of this run has changed a GRF or the disk
    corrupt_found,  \* with check_integrity set, a pack downloaded in this run is corrupt
    arrived,        \* the commands sent in this run, each with the stage it arrived in
    fetched,        \* the patch list as fetched in this run, before the filter step
    pack            \* the pack of the download that completed last, and what
                    \* is_archive_valid made of it

orchVars == <<pc, rx, check_integrity, cache, patch_list, started, in_flight, vec,
              pending_patch_queue, patch_number, ui, runs, sent, cache0, applied,
              fully_applied, mutated, corrupt_found, arrived, fetched, pack>>

VARIABLES
    builder,        \* the GrfArchiveBuilder: start_offset, finished, version_major,
                    \* version_minor, entries, chunks
    obj,            \* the output file: its header and the bytes written after it
    expected,       \* path -> data of the last add_file not followed by remove_file
    grf_calls,      \* number of add_file / import / remove_file calls made
    grf_ret,        \* result of the last builder call
    grf_called,     \* names of the builder methods called so far
    debug_assertions, \* the build checks debug_assert! (cfg(debug_assertions))
    finishes,       \* number of explicit finish calls made
    dropped         \* the builder has been dropped

VARIABLES
    oop_pc,         \* apply_patch_to_grf_oop: the step it is at
    target,         \* the file at grf_file_path: "original", "absent" or "new" (obj)
    backup,         \* the file at <target>.grf.bak: "absent" or "original"
    original,       \* the original archive: path -> data
    patch,          \* the THOR patch: path -> [is_removed, data]
    merge_entries,  \* merge entries not imported yet: path -> [source, data]
    oop_ret,        \* result of apply_patch_to_grf_oop
    attempts        \* number of calls of apply_patch_to_grf on the target so far

oopVars == <<oop_pc, target, backup, original, patch, merge_entries, oop_ret, attempts>>

VARIABLES
    layout,         \* an archive on disk: its version and, per path, the offset
                    \* and the data of the entry
    opened          \* result of GrfArchive::open on it

VARIABLES
    ip_pc,          \* apply_patch_to_grf_ip: the step it is at
    thor_entries,   \* THOR entries not processed yet: path -> [is_removed, data]
    ip_ret,         \* result of apply_patch_to_grf_ip
    ip_result       \* what the in-place patch has returned and left in the target,
                    \* kept while the same patch is applied out of place

ipVars == <<ip_pc, thor_entries, ip_ret, ip_result>>

readVars == <<layout, opened, ipVars>>

grfVars == <<builder, obj, expected, grf_calls, grf_ret, grf_called, debug_assertions,
             finishes, dropped, oopVars, readVars>>

VARIABLES
    thor_builder,   \* the ThorArchiveBuilder: entries, finished, use_grf_merging,
                    \* target_grf_name, include_checksums
    thor_obj,       \* its output file: header, bytes, write position
    thor_expected,  \* path -> the last call for the path (removal, or update and data)
    thor_calls,     \* number of append_file_update / append_file_removal calls made
    thor_ret        \* result of the last call on the builder

thorVars == <<thor_builder, thor_obj, thor_expected, thor_calls, thor_ret>>

(***************************************************************************)
(* AvailableChunkList as a value: [end_offset, sizes, chunks].  Every      *)
(* method is an operator from the list (and arguments) to the list after   *)
(* the call and the call's result.                                         *)
(***************************************************************************)
Ok(v)  == [tag |-> "Ok", val |-> v]
ErrDynAlloc == [tag |-> "DynAllocError", val |-> 0]
Panic  == [tag |-> "panic", val |-> 0]

\* AvailableChunkList::new
NewChunkList == [end_offset |-> GRF_HEADER_SIZE, sizes |-> {}, chunks |-> <<>>]

\* BTreeMap::insert: an existing key's value is replaced
MapInsert(m, k, v) == [x \in (DOMAIN m) \cup {k} |-> IF x = k THEN v ELSE m[x]]
\* BTreeMap::remove
MapRemove(m, k) == [x \in (DOMAIN m) \ {k} |-> m[x]]

\* insert_chunk_internal: the set gains (size, offset), the map's entry for
\* offset is set (replaced when present)
insert_chunk_internal(l, offset, size) ==
    [l EXCEPT !.sizes = @ \cup {<<size, offset>>},
              !.chunks = MapInsert(@, offset, size)]

\* remove_chunk_internal: None when the map has no such offset; otherwise the
\* map's entry goes, the tuple (chunk.size, offset) goes from the set, and the
\* assert!(removed) panics when the set did not hold it
remove_chunk_internal(l, offset) ==
    IF offset \notin DOMAIN l.chunks
    THEN [l |-> l, found |-> FALSE, size |-> 0, panicked |-> FALSE]
    ELSE LET sz == l.chunks[offset]
         IN [l |-> [l EXCEPT !.chunks = MapRemove(@, offset),
                             !.sizes = @ \ {<<sz, offset>>}],
             found |-> TRUE,
             size |-> sz,
             panicked |-> <<sz, offset>> \notin l.sizes]

\* (usize, u64) tuple order of the BTreeSet
TupleLeq(a, b) == a[1] < b[1] \/ (a[1] = b[1] /\ a[2] <= b[2])

\* find_suitable_chunk: sizes.range((size, 0)..).next()
find_suitable_chunk(l, size) ==
    LET cand == {t \in l.sizes : TupleLeq(<<size, 0>>, t)}
    IN IF cand = {} THEN l.end_offset
       ELSE (CHOOSE t \in cand : \A u \in cand : TupleLeq(t, u))[2]

\* alloc_chunk
alloc_chunk(l, size) ==
    LET chunk_offset == find_suitable_chunk(l, size)
    IN IF chunk_offset = l.end_offset
       THEN [l |-> [l EXCEPT !.end_offset = chunk_offset + size],
             ret |-> Ok(chunk_offset)]
       ELSE LET r == remove_chunk_internal(l, chunk_offset)
            IN IF r.panicked THEN [l |-> r.l, ret |-> Panic]
               ELSE IF ~r.found THEN [l |-> l, ret |-> ErrDynAlloc]
               ELSE IF r.size > size
                    THEN [l |-> insert_chunk_internal(r.l, chunk_offset + size,
                                                      r.size - size),
                          ret |-> Ok(chunk_offset)]
                    ELSE [l |-> r.l, ret |-> Ok(chunk_offset)]

\* chunks.range(..offset).last(): the greatest key below offset, -1 when none
LeftKey(l, offset) ==
    LET below == {o \in DOMAIN l.chunks : o < offset}
    IN IF below = {} THEN -1
       ELSE CHOOSE o \in below : \A p \in below : p <= o

\* free_chunk
free_chunk(l, offset, size) ==
    LET chunk_end_offset == offset + size
        offset_left == LeftKey(l, offset)
        merge_left == offset_left >= 0
                      /\ offset_left + l.chunks[offset_left] = offset
        rl == IF merge_left THEN remove_chunk_internal(l, offset_left)
              ELSE [l |-> l, found |-> TRUE, size |-> 0, panicked |-> FALSE]
        new_chunk_offset == IF merge_left THEN offset_left ELSE offset
        size_l == size + rl.size
        l1 == rl.l
    IN IF rl.panicked THEN [l |-> l1, ret |-> Panic]
       ELSE IF chunk_end_offset = l1.end_offset
       THEN \* "Merge" to the right
            [l |-> insert_chunk_internal([l1 EXCEPT !.end_offset = new_chunk_offset],
                                         new_chunk_offset, size_l),
             ret |-> Ok(0)]
       ELSE IF chunk_end_offset \in DOMAIN l1.chunks
       THEN LET rr == remove_chunk_internal(l1, chunk_end_offset)
            IN IF rr.panicked THEN [l |-> rr.l, ret |-> Panic]
               ELSE [l |-> insert_chunk_internal(rr.l, new_chunk_offset,
                                                 size_l + rr.size),
                     ret |-> Ok(0)]
       ELSE [l |-> insert_chunk_internal(l1, new_chunk_offset, size_l),
             ret |-> Ok(0)]

\* realloc_chunk without the test "end_offset == self.end_offset" of its first
\* lines: a chunk that abuts the end is resized like any other
realloc_chunk_no_end_case(l, offset, size, new_size) ==
    LET end_off == offset + size
        new_end_offset == offset + new_size
    IN IF end_off \in DOMAIN l.chunks
          /\ size + l.chunks[end_off] >= new_size
       THEN LET r == remove_chunk_internal(l, end_off)
            IN IF r.panicked THEN [l |-> r.l, ret |-> Panic]
               ELSE [l |-> insert_chunk_internal(r.l, new_end_offset,
                                                 size + r.size - new_size),
                     ret |-> Ok(offset)]
       ELSE LET f == free_chunk(l, offset, size)
            IN IF f.ret.tag # "Ok" THEN f
               ELSE alloc_chunk(f.l, new_size)

\* realloc_chunk
realloc_chunk(l, offset, size, new_size) ==
    LET end_off == offset + size
        new_end_offset == offset + new_size
    IN IF end_off = l.end_offset
       THEN [l |-> [l EXCEPT !.end_offset = new_end_offset], ret |-> Ok(offset)]
       ELSE IF end_off \in DOMAIN l.chunks
               /\ size + l.chunks[end_off] >= new_size
       THEN LET r == remove_chunk_internal(l, end_off)
            IN IF r.panicked THEN [l |-> r.l, ret |-> Panic]
               ELSE [l |-> insert_chunk_internal(r.l, new_end_offset,
                                                 size + r.size - new_size),
                     ret |-> Ok(offset)]
       ELSE LET f == free_chunk(l, offset, size)
            IN IF f.ret.tag # "Ok" THEN f
               ELSE alloc_chunk(f.l, new_size)

(***************************************************************************)
(* The allocator driven by a caller that keeps the obligation of           *)
(* dyn_alloc.rs:126-127: realloc_chunk and free_chunk are given the        *)
(* (offset, size) of an outstanding allocation.                            *)
(***************************************************************************)
ChunkList == [end_offset |-> end_offset, sizes |-> sizes, chunks |-> chunks]

Sizes == 0..MaxSize
Outstanding == BagToSet(allocated)
NoCall == [op |-> "none", offset |-> 0, size |-> 0, new_size |-> 0,
           ret |-> Ok(0), pre |-> NewChunkList, pre_allocated |-> EmptyBag]
Panicked == last.ret.tag = "panic"

InitAlloc ==
    /\ end_offset = NewChunkList.end_offset
    /\ sizes = NewChunkList.sizes
    /\ chunks = NewChunkList.chunks
    /\ allocated = EmptyBag
    /\ nops = 0
    /\ last = NoCall

SetList(l) ==
    /\ UNCHANGED <<orchVars, grfVars, thorVars>>
    /\ nops < MaxOps
    /\ nops' = nops + 1
    /\ end_offset' = l.end_offset
    /\ sizes' = l.sizes
    /\ chunks' = l.chunks

One(a) == SetToBag({a})

AllocChunk ==
    \E size \in Sizes :
        LET r == alloc_chunk(ChunkList, size)
        IN /\ ~Panicked
           /\ BagCardinality(allocated) < MaxAllocs
           /\ SetList(r.l)
           /\ allocated' = IF r.ret.tag = "Ok"
                           THEN allocated (+) One(<<r.ret.val, size>>)
                           ELSE allocated
           /\ last' = [op |-> "alloc", offset |-> 0, size |-> size, new_size |-> 0,
                       ret |-> r.ret, pre |-> ChunkList, pre_allocated |-> allocated]

ReallocChunk ==
    \E a \in Outstanding, new_size \in Sizes :
        LET r == realloc_chunk(ChunkList, a[1], a[2], new_size)
        IN /\ ~Panicked
           /\ SetList(r.l)
           /\ allocated' = IF r.ret.tag = "Ok"
                           THEN (allocated (-) One(a)) (+) One(<<r.ret.val, new_size>>)
                           ELSE allocated (-) One(a)
           /\ last' = [op |-> "realloc", offset |-> a[1], size |-> a[2],
                       new_size |-> new_size, ret |-> r.ret, pre |-> ChunkList,
                       pre_allocated |-> allocated]

FreeChunk ==
    \E a \in Outstanding :
        LET r == free_chunk(ChunkList, a[1], a[2])
        IN /\ ~Panicked
           /\ SetList(r.l)
           /\ allocated' = allocated (-) One(a)
           /\ last' = [op |-> "free", offset |-> a[1], size |-> a[2], new_size |-> 0,
                       ret |-> r.ret, pre |-> ChunkList, pre_allocated |-> allocated]

NextAlloc == AllocChunk \/ ReallocChunk \/ FreeChunk

(***************************************************************************)
(* GRF builder and reader (gruf/src/grf/builder.rs, reader.rs).            *)
(*                                                                         *)
(* The output file is a header slot followed by bytes addressed by their   *)
(* absolute offset.  A byte is a record naming the stream it belongs to    *)
(* and its position in it, so that reading a region back yields the data   *)
(* only when the region still holds one whole stream.                      *)
(***************************************************************************)
GRF_TABLE_INFO2_SIZE == 8

Paths == {"data\\a", "data\\b"}
Datas == UNION {[1..n -> {0, 1}] : n \in 0..MaxData}

ZeroByte == [kind |-> "zero", k |-> 0, data |-> <<>>, table |-> {}, n1 |-> 0, n2 |-> 0]
ZlibByte(data, k) ==
    [kind |-> "zlib", k |-> k, data |-> data, table |-> {}, n1 |-> 0, n2 |-> 0]
TableByte(table, k) ==
    [kind |-> "table", k |-> k, data |-> <<>>, table |-> table, n1 |-> 0, n2 |-> 0]
Table101Byte(table, k) ==
    [kind |-> "table101", k |-> k, data |-> <<>>, table |-> table, n1 |-> 0, n2 |-> 0]
InfoByte(k, n1, n2) ==
    [kind |-> "info", k |-> k, data |-> <<>>, table |-> {}, n1 |-> n1, n2 |-> n2]

\* ZlibEncoder over the data: a stream that is never empty and grows with
\* its input
ZlibEncode(data) == [k \in 1..(Len(data) + 1) |-> ZlibByte(data, k)]

\* ZlibDecoder::read_to_end over a buffer: the data of the stream the buffer
\* starts with, bytes after the end of the stream are not consumed
ZlibDecode(bytes) ==
    IF \E data \in Datas :
          /\ Len(bytes) >= Len(ZlibEncode(data))
          /\ SubSeq(bytes, 1, Len(ZlibEncode(data))) = ZlibEncode(data)
    THEN Ok(CHOOSE data \in Datas :
               /\ Len(bytes) >= Len(ZlibEncode(data))
               /\ SubSeq(bytes, 1, Len(ZlibEncode(data))) = ZlibEncode(data))
    ELSE [tag |-> "Err", val |-> <<>>]

\* the file table: one SerializableGrfFileEntry200 per entry, keyed by its
\* null-terminated path
SerializeTable(entries) ==
    {[relative_path |-> p,
      size_compressed |-> entries[p].size_compressed,
      size_compressed_aligned |-> entries[p].size_compressed,
      size |-> entries[p].size,
      entry_type |-> 1,
      offset |-> entries[p].offset - GRF_HEADER_SIZE] : p \in DOMAIN entries}

\* table.len(): zero exactly when there is no entry
TableLen(table) == Cardinality(table)

\* the compressed table: never empty
CompressTable(table) == [k \in 1..(Cardinality(table) + 1) |-> TableByte(table, k)]

\* obj.seek(Start(offset)) followed by a write of the bytes
WriteAt(f, offset, bytes) ==
    [f EXCEPT !.bytes =
        [o \in (DOMAIN f.bytes) \cup {offset + k - 1 : k \in 1..Len(bytes)} |->
            IF o >= offset /\ o < offset + Len(bytes)
            THEN bytes[o - offset + 1]
            ELSE f.bytes[o]]]

\* seek(Start(offset)) followed by take(n).read_to_end
ReadAt(f, offset, n) ==
    [k \in 1..n |-> IF offset + k - 1 \in DOMAIN f.bytes
                    THEN f.bytes[offset + k - 1]
                    ELSE ZeroByte]

NoHeader == [magic |-> FALSE, file_table_offset |-> 0, seed |-> 0,
             v_file_count |-> 0, version_major |-> 0, version_minor |-> 0]

\* GrfArchiveBuilder::create over a new file
create(version_major, version_minor) ==
    [b |-> [start_offset |-> 0, finished |-> FALSE,
            version_major |-> version_major, version_minor |-> version_minor,
            entries |-> <<>>, chunks |-> NewChunkList],
     f |-> [header |-> NoHeader, bytes |-> <<>>]]

add_file(b, f, relative_path, data) ==
    LET compressed_data == ZlibEncode(data)
        compressed_data_size == Len(compressed_data)
        r == IF relative_path \in DOMAIN b.entries
             THEN realloc_chunk(b.chunks, b.entries[relative_path].offset,
                                b.entries[relative_path].size_compressed,
                                compressed_data_size)
             ELSE alloc_chunk(b.chunks, compressed_data_size)
    IN  IF r.ret.tag # "Ok"
        THEN [b |-> [b EXCEPT !.chunks = r.l], f |-> f, ret |-> r.ret]
        ELSE [b |-> [b EXCEPT !.chunks = r.l,
                              !.entries = MapInsert(@, relative_path,
                                  [offset |-> r.ret.val,
                                   size |-> Len(data),
                                   size_compressed |-> compressed_data_size])],
              f |-> WriteAt(f, b.start_offset + r.ret.val, compressed_data),
              ret |-> Ok(0)]

remove_file(b, f, relative_path) ==
    IF relative_path \in DOMAIN b.entries
    THEN LET entry == b.entries[relative_path]
             r == free_chunk(b.chunks, entry.offset, entry.size_compressed)
         IN  [b |-> [b EXCEPT !.entries = MapRemove(@, relative_path), !.chunks = r.l],
              f |-> f,
              ret |-> IF r.ret.tag = "Ok" THEN Ok(1) ELSE r.ret]
    ELSE [b |-> b, f |-> f, ret |-> Ok(0)]

write_grf_table_200(b, f) ==
    LET table == SerializeTable(b.entries)
        compressed_table == CompressTable(table)
        compressed_table_size == Len(compressed_table)
        r == alloc_chunk(b.chunks, compressed_table_size + GRF_TABLE_INFO2_SIZE)
        info == [k \in 1..GRF_TABLE_INFO2_SIZE |->
                    InfoByte(k, compressed_table_size, TableLen(table))]
    IN  IF r.ret.tag # "Ok"
        THEN [b |-> [b EXCEPT !.chunks = r.l], f |-> f, ret |-> r.ret]
        ELSE [b |-> [b EXCEPT !.chunks = r.l],
              f |-> WriteAt(f, b.start_offset + r.ret.val, info \o compressed_table),
              ret |-> r.ret]

write_grf_header(f, version_major, version_minor, file_table_offset, v_file_count) ==
    [f EXCEPT !.header = [magic |-> TRUE, file_table_offset |-> file_table_offset,
                          seed |-> 0, v_file_count |-> v_file_count,
                          version_major |-> version_major,
                          version_minor |-> version_minor]]

\* an entry of a source GRF holding the data: as GrfArchiveBuilder writes it,
\* aligned and compressed sizes are equal
GrfSourceEntry(data) ==
    [size |-> Len(data), size_compressed |-> Len(ZlibEncode(data)),
     size_compressed_aligned |-> Len(ZlibEncode(data)), raw |-> ZlibEncode(data)]

\* an update entry of a source THOR archive holding the data
ThorSourceEntry(data) ==
    [size |-> Len(data), size_compressed |-> Len(ZlibEncode(data)),
     raw |-> ZlibEncode(data)]

\* GrfArchive::get_entry_raw_data
grf_get_entry_raw_data(file_entry) ==
    IF file_entry.size = 0
    THEN <<>>
    ELSE SubSeq(file_entry.raw, 1, file_entry.size_compressed_aligned)

\* ThorArchive::get_entry_raw_data
thor_get_entry_raw_data(file_entry) ==
    IF file_entry.size_compressed = 0
    THEN <<>>
    ELSE SubSeq(file_entry.raw, 1, file_entry.size_compressed)

\* the part import_raw_entry_from_grf and import_raw_entry_from_thor share:
\* place the content, write it, record the entry
ImportRaw(b, f, relative_path, content, size, size_compressed, assert_fails) ==
    LET r == IF relative_path \in DOMAIN b.entries
             THEN realloc_chunk(b.chunks, b.entries[relative_path].offset,
                                b.entries[relative_path].size_compressed,
                                Len(content))
             ELSE alloc_chunk(b.chunks, Len(content))
    IN  IF r.ret.tag # "Ok"
        THEN [b |-> [b EXCEPT !.chunks = r.l], f |-> f, ret |-> r.ret]
        ELSE IF assert_fails
        THEN [b |-> [b EXCEPT !.chunks = r.l],
              f |-> WriteAt(f, b.start_offset + r.ret.val, content),
              ret |-> Panic]
        ELSE [b |-> [b EXCEPT !.chunks = r.l,
                              !.entries = MapInsert(@, relative_path,
                                  [offset |-> r.ret.val,
                                   size |-> size,
                                   size_compressed |-> size_compressed])],
              f |-> WriteAt(f, b.start_offset + r.ret.val, content),
              ret |-> Ok(0)]

import_raw_entry_from_grf(b, f, entry, relative_path, debug) ==
    LET content == grf_get_entry_raw_data(entry)
    IN  ImportRaw(b, f, relative_path, content, entry.size,
                  entry.size_compressed_aligned,
                  debug /\ entry.size_compressed_aligned # Len(content))

import_raw_entry_from_thor(b, f, entry, relative_path) ==
    LET content == thor_get_entry_raw_data(entry)
    IN  ImportRaw(b, f, relative_path, content, entry.size, entry.size_compressed, FALSE)

SerializationError == [tag |-> "SerializationError", val |-> 0]

\* a variant that rejects a call on a finished builder
finish_rejecting(b, f) ==
    [b |-> b, f |-> f, ret |-> SerializationError]

finish(b, f) ==
    IF b.finished
    THEN [b |-> b, f |-> f, ret |-> Ok(0)]
    ELSE LET b1 == [b EXCEPT !.finished = TRUE]
             v_file_count == Cardinality(DOMAIN b.entries) + 7
         IN  IF b.version_major = 2
             THEN LET t == write_grf_table_200(b1, f)
                  IN  IF t.ret.tag # "Ok"
                      THEN t
                      ELSE [b |-> t.b,
                            f |-> write_grf_header(t.f, b.version_major, b.version_minor,
                                                   t.ret.val - GRF_HEADER_SIZE,
                                                   v_file_count),
                            ret |-> Ok(0)]
             ELSE IF b.version_major = 1
             THEN [b |-> b1, f |-> f, ret |-> Panic]
             ELSE [b |-> b1, f |-> f, ret |-> SerializationError]

IoError == [tag |-> "Io", val |-> 0]

\* finish on a builder that is not finished, when writing the file table
\* fails (the flag is set before anything is written)
finish_table_io_error(b, f) ==
    [b |-> [b EXCEPT !.finished = TRUE], f |-> f, ret |-> IoError]

\* the same when the file table is written and writing the header fails
finish_header_io_error(b, f) ==
    LET t == write_grf_table_200([b EXCEPT !.finished = TRUE], f)
    IN  [b |-> t.b, f |-> t.f, ret |-> IF t.ret.tag = "Ok" THEN IoError ELSE t.ret]

\* the outcomes of one call of finish, the output failing or not
finish_outcomes(b, f) ==
    {finish(b, f)} \cup
    (IF b.finished \/ b.version_major # 2
     THEN {}
     ELSE {finish_table_io_error(b, f), finish_header_io_error(b, f)})

ParsingError == [tag |-> "ParsingError", val |-> <<>>]

\* parse_grf_table_info_200 over the 8 bytes at the table offset
parse_grf_table_info_200(buf) ==
    IF \A k \in 1..GRF_TABLE_INFO2_SIZE :
          /\ buf[k].kind = "info"
          /\ buf[k].k = k
          /\ buf[k].n1 = buf[1].n1
          /\ buf[k].n2 = buf[1].n2
    THEN Ok([table_size_compressed |-> buf[1].n1, table_size |-> buf[1].n2])
    ELSE ParsingError

\* ZlibDecoder over the compressed table, then parse_grf_file_entries_200
parse_grf_file_entries_200(bytes, file_count) ==
    IF /\ Len(bytes) >= 1
       /\ bytes[1].kind = "table"
       /\ bytes = CompressTable(bytes[1].table)
       /\ Cardinality(bytes[1].table) = file_count
    THEN Ok([p \in {e.relative_path : e \in bytes[1].table} |->
               LET e == CHOOSE e \in bytes[1].table : e.relative_path = p
               IN  [relative_path |-> p,
                    size_compressed |-> e.size_compressed,
                    size_compressed_aligned |-> e.size_compressed_aligned,
                    size |-> e.size,
                    entry_type |-> e.entry_type,
                    offset |-> GRF_HEADER_SIZE + e.offset]])
    ELSE ParsingError

\* fold_many_m_n!(1, files_count - 1, parse_grf_file_entry_101): at most
\* files_count - 1 entries of the uncompressed table are taken, at least one
parse_grf_file_entries_101(bytes, files_count) ==
    IF /\ Len(bytes) >= 1
       /\ bytes[1].kind = "table101"
       /\ bytes[1].table # {}
       /\ files_count - 1 >= 1
    THEN LET table == bytes[1].table
             taken == CHOOSE T \in SUBSET table :
                         Cardinality(T) = IF Cardinality(table) <= files_count - 1
                                          THEN Cardinality(table)
                                          ELSE files_count - 1
         IN  Ok([p \in {e.relative_path : e \in taken} |->
                   LET e == CHOOSE e \in taken : e.relative_path = p
                   IN  [relative_path |-> p,
                        size_compressed |-> e.size_compressed,
                        size_compressed_aligned |-> e.size_compressed_aligned,
                        size |-> e.size,
                        entry_type |-> e.entry_type,
                        offset |-> GRF_HEADER_SIZE + e.offset]])
    ELSE ParsingError

\* GrfHeader::file_count as parse_grf_header computes it
header_file_count(f) == f.header.v_file_count - f.header.seed - 7

\* what parse_grf_header leaves of grf_header_buf, a buffer of
\* GRF_HEADER_SIZE bytes of which it consumes GRF_HEADER_SIZE
parser_output(f) == ReadAt(f, GRF_HEADER_SIZE, GRF_HEADER_SIZE - GRF_HEADER_SIZE)

\* GrfArchive::open over the file
GrfArchiveOpen(f) ==
    IF ~f.header.magic
    THEN ParsingError
    ELSE IF f.header.version_major = 1
    THEN IF f.header.version_minor < 1 \/ f.header.version_minor > 3
         THEN ParsingError
         ELSE LET table_size == Len(parser_output(f))
              IN  IF table_size = 0
                  THEN Ok(<<>>)
                  ELSE parse_grf_file_entries_101(
                           SubSeq(parser_output(f), f.header.file_table_offset + 1,
                                  table_size),
                           header_file_count(f))
    ELSE IF f.header.version_major = 2
    THEN LET info == parse_grf_table_info_200(
                        ReadAt(f, GRF_HEADER_SIZE + f.header.file_table_offset,
                               GRF_TABLE_INFO2_SIZE))
             file_count == f.header.v_file_count - f.header.seed - 7
         IN  IF info.tag # "Ok"
             THEN ParsingError
             ELSE IF info.val.table_size_compressed = 0 \/ info.val.table_size = 0
             THEN Ok(<<>>)
             ELSE parse_grf_file_entries_200(
                      ReadAt(f, GRF_HEADER_SIZE + f.header.file_table_offset
                                + GRF_TABLE_INFO2_SIZE,
                             info.val.table_size_compressed),
                      file_count)
    ELSE ParsingError

\* GrfArchive::read_file_content for an entry of the opened archive
read_file_content(f, file_entry) ==
    IF file_entry.size = 0
    THEN Ok(<<>>)
    ELSE LET content == ReadAt(f, file_entry.offset, file_entry.size_compressed_aligned)
             decompressed == ZlibDecode(content)
         IN  IF decompressed.tag # "Ok"
             THEN decompressed
             ELSE IF Len(decompressed.val) # file_entry.size
             THEN ParsingError
             ELSE decompressed

\* entries.sort_unstable_by(offset): the orders the sort may leave the
\* entries of the archive in (entries at the same offset in either order)
EntriesSortedByOffset(entries) ==
    {order \in [1..Cardinality(DOMAIN entries) -> DOMAIN entries] :
        /\ \A i, j \in DOMAIN order : i # j => order[i] # order[j]
        /\ \A i, j \in DOMAIN order :
              i < j => entries[order[i]].offset <= entries[order[j]].offset}

\* dyn_alloc::list_available_chunks over the entries in the given order
list_available_chunks(entries, order) ==
    IF Len(order) = 0
    THEN Ok(NewChunkList)
    ELSE LET expected_entry_offset(i) ==
                 entries[order[i]].offset + entries[order[i]].size_compressed_aligned
             space_between_entries(i) ==
                 entries[order[i + 1]].offset - expected_entry_offset(i)
             gaps == 1..(Len(order) - 1)
         IN  IF \E i \in gaps : space_between_entries(i) < 0
             THEN ParsingError
             ELSE Ok([end_offset |-> expected_entry_offset(Len(order)),
                      sizes |-> {<<space_between_entries(i), expected_entry_offset(i)>> :
                                    i \in gaps},
                      chunks |-> [o \in {expected_entry_offset(i) : i \in gaps} |->
                                    space_between_entries(
                                        CHOOSE i \in gaps :
                                            /\ expected_entry_offset(i) = o
                                            /\ \A j \in gaps :
                                                  expected_entry_offset(j) = o => j <= i)]])

(***************************************************************************)
(* The builder driven by a client: add_file and remove_file in any order,  *)
(* then finish (test_add_file, builder.rs:304-351).                        *)
(***************************************************************************)
InitGrf ==
    /\ builder = create(2, 0).b
    /\ obj = create(2, 0).f
    /\ expected = <<>>
    /\ grf_calls = 0
    /\ grf_ret = Ok(0)
    /\ grf_called = {}
    /\ debug_assertions \in BOOLEAN
    /\ finishes = 0
    /\ dropped = FALSE

GrfStep(op, r) ==
    /\ builder' = r.b
    /\ obj' = r.f
    /\ grf_ret' = r.ret
    /\ grf_called' = grf_called \cup {op}
    /\ UNCHANGED <<allocVars, orchVars, thorVars, debug_assertions, oopVars, readVars>>

GrfCallable ==
    /\ ~dropped
    /\ ~builder.finished
    /\ grf_ret.tag = "Ok"
    /\ grf_calls < MaxCalls

AddFile ==
    /\ GrfCallable
    /\ \E relative_path \in Paths, data \in Datas :
          LET r == add_file(builder, obj, relative_path, data)
          IN  /\ GrfStep("add_file", r)
              /\ expected' = IF r.ret.tag = "Ok"
                             THEN MapInsert(expected, relative_path, data)
                             ELSE expected
    /\ grf_calls' = grf_calls + 1
    /\ UNCHANGED <<finishes, dropped>>

ImportRawEntryFromGrf ==
    /\ GrfCallable
    /\ \E relative_path \in Paths, data \in Datas :
          LET r == import_raw_entry_from_grf(builder, obj, GrfSourceEntry(data),
                                             relative_path, debug_assertions)
          IN  /\ GrfStep("import_raw_entry_from_grf", r)
              /\ expected' = IF r.ret.tag = "Ok"
                             THEN MapInsert(expected, relative_path, data)
                             ELSE expected
    /\ grf_calls' = grf_calls + 1
    /\ UNCHANGED <<finishes, dropped>>

ImportRawEntryFromThor ==
    /\ GrfCallable
    /\ \E relative_path \in Paths, data \in Datas :
          LET r == import_raw_entry_from_thor(builder, obj, ThorSourceEntry(data),
                                              relative_path)
          IN  /\ GrfStep("import_raw_entry_from_thor", r)
              /\ expected' = IF r.ret.tag = "Ok"
                             THEN MapInsert(expected, relative_path, data)
                             ELSE expected
    /\ grf_calls' = grf_calls + 1
    /\ UNCHANGED <<finishes, dropped>>

RemoveFile ==
    /\ GrfCallable
    /\ \E relative_path \in Paths :
          /\ GrfStep("remove_file", remove_file(builder, obj, relative_path))
          /\ expected' = MapRemove(expected, relative_path)
    /\ grf_calls' = grf_calls + 1
    /\ UNCHANGED <<finishes, dropped>>

\* an explicit finish, on a builder finished or not
Finish ==
    /\ ~dropped
    /\ grf_ret.tag = "Ok"
    /\ finishes < MaxFinishes
    /\ \E r \in finish_outcomes(builder, obj) : GrfStep("finish", r)
    /\ finishes' = finishes + 1
    /\ UNCHANGED <<expected, grf_calls, dropped>>

\* the builder goes out of scope, after any call and also while a panic
\* unwinds: drop calls finish and discards its result (grf_ret keeps it)
Drop ==
    /\ ~dropped
    /\ \E r \in finish_outcomes(builder, obj) : GrfStep("drop", r)
    /\ dropped' = TRUE
    /\ UNCHANGED <<expected, grf_calls, finishes>>

NextGrf ==
    \/ AddFile \/ ImportRawEntryFromGrf \/ ImportRawEntryFromThor
    \/ RemoveFile \/ Finish \/ Drop

(***************************************************************************)
(* apply_patch_to_grf_oop (rpatchur/src/patcher/patching.rs:82-143), step  *)
(* by step, over the file at grf_file_path and the one at                  *)
(* <target>.grf.bak.  The new archive is built with the builder above; the *)
(* builder is dropped at the end of its block or when an import fails.     *)
(***************************************************************************)
\* the contents an archive or a patch may have
Archives == UNION {[S -> Datas] : S \in SUBSET Paths}
ThorEntries ==
    {[is_removed |-> TRUE, data |-> <<>>]} \cup
    {[is_removed |-> FALSE, data |-> d] : d \in Datas}
\* ThorFileEntry::is_internal
is_internal(relative_path) == relative_path = "data.integrity"
Patches == UNION {[S -> ThorEntries] : S \in SUBSET (Paths \cup {"data.integrity"})}

\* the two loops that fill merge_entries
MergeEntries(grf_archive, thor_archive) ==
    LET kept == {p \in DOMAIN grf_archive :
                    ~(p \in DOMAIN thor_archive /\ thor_archive[p].is_removed)}
        added == {p \in DOMAIN thor_archive :
                     ~(thor_archive[p].is_removed \/ is_internal(p))}
    IN  [p \in kept \cup added |->
            IF p \in added
            THEN [source |-> "ThorArchive", data |-> thor_archive[p].data]
            ELSE [source |-> "GrfArchive", data |-> grf_archive[p]]]

InitOop ==
    /\ oop_pc = "rename"
    /\ target = "original"
    /\ backup = "absent"
    /\ original \in Archives
    /\ patch \in Patches
    /\ merge_entries = <<>>
    /\ oop_ret = Ok(0)
    /\ attempts = 1

\* no patch is being applied
NoPatchJob == original = <<>> /\ patch = <<>>

\* fs::rename(grf_file_path, backup_file_path)
OopRename ==
    /\ oop_pc = "rename"
    /\ target # "absent"
    /\ target' = "absent"
    /\ backup' = target
    /\ oop_pc' = "open"
    /\ UNCHANGED <<original, patch, merge_entries, oop_ret>>
    /\ UNCHANGED <<builder, obj, expected, grf_calls, grf_ret, grf_called,
                   debug_assertions, finishes, dropped>>
    /\ UNCHANGED <<allocVars, orchVars, thorVars, readVars, attempts>>

\* what GrfArchive::open may find in the file at the backup path: the
\* original archive, the empty archive apply_patch_to_grf has created, or
\* what an earlier attempt that failed has left of its output
BackupContents ==
    IF backup = "original" THEN {original}
    ELSE IF backup = "created" THEN {<<>>}
    ELSE Archives

\* GrfArchive::open(backup_file_path) and the two loops over the entries
OopCollectEntries ==
    /\ oop_pc = "open"
    /\ \E grf_archive \in BackupContents :
          merge_entries' = MergeEntries(grf_archive, patch)
    /\ oop_pc' = "create"
    /\ UNCHANGED <<target, backup, original, patch, oop_ret>>
    /\ UNCHANGED <<builder, obj, expected, grf_calls, grf_ret, grf_called,
                   debug_assertions, finishes, dropped>>
    /\ UNCHANGED <<allocVars, orchVars, thorVars, readVars, attempts>>

\* fs::File::create(grf_file_path) and GrfArchiveBuilder::create
OopCreate ==
    /\ oop_pc = "create"
    /\ target' = "new"
    /\ builder' = create(2, 0).b
    /\ obj' = create(2, 0).f
    /\ oop_pc' = "import"
    /\ UNCHANGED <<backup, original, patch, merge_entries, oop_ret>>
    /\ UNCHANGED <<expected, grf_calls, grf_ret, grf_called, debug_assertions,
                   finishes, dropped>>
    /\ UNCHANGED <<allocVars, orchVars, thorVars, readVars, attempts>>

\* the file-system call of the step fails and the function returns the
\* error (rename, open, create, remove_file)
OopIoFails ==
    /\ oop_pc \in {"rename", "open", "create", "remove"}
    /\ oop_ret' = IoError
    /\ oop_pc' = "returned"
    /\ UNCHANGED <<target, backup, original, patch, merge_entries>>
    /\ UNCHANGED <<builder, obj, expected, grf_calls, grf_ret, grf_called,
                   debug_assertions, finishes, dropped>>
    /\ UNCHANGED <<allocVars, orchVars, thorVars, readVars, attempts>>

\* the builder leaves its scope: drop calls finish and discards the result
OopDrop(b, f) ==
    \E d \in finish_outcomes(b, f) :
        /\ builder' = d.b
        /\ obj' = d.f
        /\ grf_ret' = d.ret
        /\ dropped' = TRUE

\* the import of one merge entry, from the archive it comes from
import_merge_entry(b, f, entry, relative_path, debug) ==
    IF entry.source = "GrfArchive"
    THEN import_raw_entry_from_grf(b, f, GrfSourceEntry(entry.data), relative_path, debug)
    ELSE import_raw_entry_from_thor(b, f, ThorSourceEntry(entry.data), relative_path)

\* one iteration of the loop over merge_entries (a HashMap: any order)
OopImport ==
    /\ oop_pc = "import"
    /\ \E relative_path \in DOMAIN merge_entries :
       \E r \in {import_merge_entry(builder, obj, merge_entries[relative_path],
                                    relative_path, debug_assertions)} :
          IF r.ret.tag = "Ok"
          THEN /\ builder' = r.b
               /\ obj' = r.f
               /\ grf_ret' = r.ret
               /\ merge_entries' = MapRemove(merge_entries, relative_path)
               /\ UNCHANGED <<oop_pc, oop_ret, dropped>>
          ELSE /\ OopDrop(r.b, r.f)
               /\ oop_ret' = r.ret
               /\ oop_pc' = "returned"
               /\ UNCHANGED merge_entries
    /\ UNCHANGED <<target, backup, original, patch>>
    /\ UNCHANGED <<expected, grf_calls, grf_called, debug_assertions, finishes>>
    /\ UNCHANGED <<allocVars, orchVars, thorVars, readVars, attempts>>

\* an import fails on reading its source: the error is returned, the
\* builder is dropped
OopImportIoFails ==
    /\ oop_pc = "import"
    /\ DOMAIN merge_entries # {}
    /\ OopDrop(builder, obj)
    /\ oop_ret' = IoError
    /\ oop_pc' = "returned"
    /\ UNCHANGED <<target, backup, original, patch, merge_entries>>
    /\ UNCHANGED <<expected, grf_calls, grf_called, debug_assertions, finishes>>
    /\ UNCHANGED <<allocVars, orchVars, thorVars, readVars, attempts>>

\* the end of the builder's block
OopBuilt ==
    /\ oop_pc = "import"
    /\ DOMAIN merge_entries = {}
    /\ OopDrop(builder, obj)
    /\ oop_pc' = "remove"
    /\ UNCHANGED <<target, backup, original, patch, merge_entries, oop_ret>>
    /\ UNCHANGED <<expected, grf_calls, grf_called, debug_assertions, finishes>>
    /\ UNCHANGED <<allocVars, orchVars, thorVars, readVars, attempts>>

\* fs::remove_file(backup_file_path)
OopRemoveBackup ==
    /\ oop_pc = "remove"
    /\ backup' = "absent"
    /\ oop_ret' = Ok(0)
    /\ oop_pc' = "returned"
    /\ UNCHANGED <<target, original, patch, merge_entries>>
    /\ UNCHANGED <<builder, obj, expected, grf_calls, grf_ret, grf_called,
                   debug_assertions, finishes, dropped>>
    /\ UNCHANGED <<allocVars, orchVars, thorVars, readVars, attempts>>

NextOop ==
    \/ OopRename \/ OopCollectEntries \/ OopCreate \/ OopIoFails \/ OopImport
    \/ OopImportIoFails \/ OopBuilt \/ OopRemoveBackup


(***************************************************************************)
(* An archive on disk, of any version and layout, opened by GrfArchive     *)
(* (reader.rs:32-120) and by GrfArchiveBuilder::open (builder.rs:242-267), *)
(* the builder then being finished or dropped.                             *)
(***************************************************************************)
LayoutPaths == Paths \cup {"data\\c"}
Versions == {<<1, 0>>, <<1, 1>>, <<1, 2>>, <<1, 3>>, <<2, 0>>}
\* an entry of the archive: where its bytes start, and its data, stored
\* compressed or, for an empty file, possibly as no byte at all
LayoutEntries ==
    {e \in [offset : GRF_HEADER_SIZE..(GRF_HEADER_SIZE + MaxOffset),
            data : Datas, stored : BOOLEAN] : e.stored \/ e.data = <<>>}

\* the bytes the archive holds for the entry
Stored(e) == IF e.stored THEN ZlibEncode(e.data) ELSE <<>>
Layouts ==
    [version : Versions,
     entries : UNION {[S -> LayoutEntries] : S \in SUBSET LayoutPaths}]

\* the file table of the archive
LayoutTable(l) ==
    {[relative_path |-> p,
      size_compressed |-> Len(Stored(l.entries[p])),
      size_compressed_aligned |-> Len(Stored(l.entries[p])),
      size |-> Len(l.entries[p].data),
      entry_type |-> 1,
      offset |-> l.entries[p].offset - GRF_HEADER_SIZE] : p \in DOMAIN l.entries}

\* where the data of the entries ends and the file table starts
LayoutTableOffset(l) ==
    LET ends == {l.entries[p].offset + Len(Stored(l.entries[p])) :
                    p \in DOMAIN l.entries} \cup {GRF_HEADER_SIZE}
    IN  CHOOSE e \in ends : \A x \in ends : x <= e

\* the bytes of the file table: table info and compressed table for
\* version 2, the plain table for version 1
LayoutTableBytes(l) ==
    LET table == LayoutTable(l)
    IN  IF l.version[1] = 2
        THEN [k \in 1..GRF_TABLE_INFO2_SIZE |->
                 InfoByte(k, Len(CompressTable(table)), TableLen(table))]
             \o CompressTable(table)
        ELSE [k \in 1..Cardinality(table) |-> Table101Byte(table, k)]

\* the file: the header, the data of every entry at its offset (where two
\* entries overlap, the bytes of one of them), the file table
ArchiveFile(l) ==
    LET covering(o) == {p \in DOMAIN l.entries :
                          /\ l.entries[p].offset <= o
                          /\ o < l.entries[p].offset + Len(Stored(l.entries[p]))}
        data_offsets == {o \in GRF_HEADER_SIZE..LayoutTableOffset(l) : covering(o) # {}}
        data_bytes == [o \in data_offsets |->
                          LET p == CHOOSE p \in covering(o) : TRUE
                          IN  Stored(l.entries[p])[o - l.entries[p].offset + 1]]
        header == [magic |-> TRUE,
                   file_table_offset |-> LayoutTableOffset(l) - GRF_HEADER_SIZE,
                   seed |-> 0,
                   v_file_count |-> Cardinality(DOMAIN l.entries) + 7,
                   version_major |-> l.version[1],
                   version_minor |-> l.version[2]]
    IN  WriteAt([header |-> header, bytes |-> data_bytes],
                LayoutTableOffset(l), LayoutTableBytes(l))

NotOpened == [tag |-> "NotOpened", val |-> <<>>]

InitRead ==
    /\ layout \in Layouts
    /\ opened = NotOpened
    /\ ip_pc = "open"
    /\ thor_entries = <<>>
    /\ ip_ret = Ok(0)
    /\ ip_result = NotOpened

\* no archive on disk is being read
NoArchive == layout = [version |-> <<2, 0>>, entries |-> <<>>]

\* list_available_chunks over an opened archive: file_count() is the count
\* of the header, the entries are those GrfArchive::open has kept; with no
\* entry, entries.len() - 1 underflows and the function panics (on the
\* subtraction, or on the indexing that follows)
list_available_chunks_of(f, entries, order) ==
    IF header_file_count(f) = 0
    THEN Ok(NewChunkList)
    ELSE IF DOMAIN entries = {}
    THEN Panic
    ELSE list_available_chunks(entries, order)

\* GrfArchiveBuilder::open, the sort leaving the entries in the given order
GrfArchiveBuilder_open(f, order) ==
    LET grf_archive == GrfArchiveOpen(f)
        available == list_available_chunks_of(f, grf_archive.val, order)
    IN  IF grf_archive.tag # "Ok"
        THEN [b |-> create(0, 0).b, f |-> f, ret |-> grf_archive]
        ELSE IF available.tag # "Ok"
        THEN [b |-> create(0, 0).b, f |-> f, ret |-> available]
        ELSE [b |-> [start_offset |-> 0, finished |-> FALSE,
                     version_major |-> f.header.version_major,
                     version_minor |-> f.header.version_minor,
                     entries |-> [p \in DOMAIN grf_archive.val |->
                                    [offset |-> grf_archive.val[p].offset,
                                     size |-> grf_archive.val[p].size,
                                     size_compressed |->
                                         grf_archive.val[p].size_compressed_aligned]],
                     chunks |-> available.val],
              f |-> f,
              ret |-> Ok(0)]

\* a client opens the archive for reading
ArchiveOpen ==
    /\ opened = NotOpened
    /\ opened' = GrfArchiveOpen(ArchiveFile(layout))
    /\ UNCHANGED <<layout, oopVars, ipVars>>
    /\ UNCHANGED <<builder, obj, expected, grf_calls, grf_ret, grf_called,
                   debug_assertions, finishes, dropped>>
    /\ UNCHANGED <<allocVars, orchVars, thorVars>>

\* the orders of the entries GrfArchive::open keeps of the file
OpenOrders(f) ==
    IF GrfArchiveOpen(f).tag = "Ok"
    THEN EntriesSortedByOffset(GrfArchiveOpen(f).val)
    ELSE {<<>>}

\* a client opens the archive for writing; no builder exists when the call
\* fails
BuilderOpen ==
    /\ grf_called = {}
    /\ \E order \in OpenOrders(ArchiveFile(layout)) :
       \E r \in {GrfArchiveBuilder_open(ArchiveFile(layout), order)} :
          /\ builder' = r.b
          /\ obj' = r.f
          /\ grf_ret' = r.ret
          /\ dropped' = (r.ret.tag # "Ok")
    /\ grf_called' = {"open"}
    /\ UNCHANGED <<expected, grf_calls, debug_assertions, finishes, oopVars, readVars>>
    /\ UNCHANGED <<allocVars, orchVars, thorVars>>

\* the opened builder is finished, or dropped
OpenedFinish == "open" \in grf_called /\ Finish
OpenedDrop == "open" \in grf_called /\ Drop

NextRead ==
    \/ ArchiveOpen \/ BuilderOpen \/ OpenedFinish \/ OpenedDrop

(***************************************************************************)
(* apply_patch_to_grf_ip (rpatchur/src/patcher/patching.rs:58-77) over the *)
(* archive on disk and the THOR patch: the builder is opened on the file,  *)
(* every entry of the patch is removed or imported, and the builder is     *)
(* dropped when the function returns, with Ok or with an error.            *)
(***************************************************************************)
\* the archives the patch is applied to: version 2.0, over Paths
IpLayouts == {l \in Layouts : l.version = <<2, 0>> /\ DOMAIN l.entries \subseteq Paths}

\* thor_archive.get_entries().filter(|e| !e.is_internal())
NotInternal(thor_archive) ==
    [p \in {q \in DOMAIN thor_archive : ~is_internal(q)} |-> thor_archive[p]]

\* GrfArchiveBuilder::open(grf_file_path)? and the collection of the entries
IpOpen ==
    /\ ip_pc = "open"
    /\ \E order \in OpenOrders(ArchiveFile(layout)) :
       \E r \in {GrfArchiveBuilder_open(ArchiveFile(layout), order)} :
          /\ builder' = r.b
          /\ obj' = r.f
          /\ grf_ret' = r.ret
          /\ dropped' = (r.ret.tag # "Ok")
          /\ IF r.ret.tag = "Ok"
             THEN /\ ip_pc' = "loop"
                  /\ thor_entries' = NotInternal(patch)
                  /\ ip_ret' = ip_ret
             ELSE /\ ip_pc' = "returned"
                  /\ thor_entries' = thor_entries
                  /\ ip_ret' = r.ret
    /\ UNCHANGED <<expected, grf_calls, grf_called, debug_assertions, finishes>>
    /\ UNCHANGED <<oopVars, layout, opened, ip_result>>
    /\ UNCHANGED <<allocVars, orchVars, thorVars>>

\* the file cannot be opened or read
IpOpenIoFails ==
    /\ ip_pc = "open"
    /\ ip_ret' = IoError
    /\ ip_pc' = "returned"
    /\ UNCHANGED <<builder, obj, expected, grf_calls, grf_ret, grf_called,
                   debug_assertions, finishes, dropped>>
    /\ UNCHANGED <<oopVars, layout, opened, thor_entries, ip_result>>
    /\ UNCHANGED <<allocVars, orchVars, thorVars>>

\* one entry of the patch: the result of remove_file is discarded, an error
\* of import_raw_entry_from_thor is returned (the offsets of the entries in
\* the THOR, and with them the order of the loop, are any)
ip_entry(b, f, entry, relative_path) ==
    IF entry.is_removed
    THEN [remove_file(b, f, relative_path) EXCEPT !.ret = Ok(0)]
    ELSE import_raw_entry_from_thor(b, f, ThorSourceEntry(entry.data), relative_path)

\* one iteration of the loop over thor_entries
IpEntry ==
    /\ ip_pc = "loop"
    /\ \E relative_path \in DOMAIN thor_entries :
       \E r \in {ip_entry(builder, obj, thor_entries[relative_path], relative_path)} :
          IF r.ret.tag = "Ok"
          THEN /\ builder' = r.b
               /\ obj' = r.f
               /\ grf_ret' = r.ret
               /\ thor_entries' = MapRemove(thor_entries, relative_path)
               /\ UNCHANGED <<ip_pc, ip_ret, dropped>>
          ELSE /\ OopDrop(r.b, r.f)
               /\ ip_ret' = r.ret
               /\ ip_pc' = "returned"
               /\ UNCHANGED thor_entries
    /\ UNCHANGED <<expected, grf_calls, grf_called, debug_assertions, finishes>>
    /\ UNCHANGED <<oopVars, layout, opened, ip_result>>
    /\ UNCHANGED <<allocVars, orchVars, thorVars>>

\* an import fails on reading the THOR or on writing the target: the error
\* is returned, the builder is dropped
IpImportIoFails ==
    /\ ip_pc = "loop"
    /\ \E relative_path \in DOMAIN thor_entries : ~thor_entries[relative_path].is_removed
    /\ OopDrop(builder, obj)
    /\ ip_ret' = IoError
    /\ ip_pc' = "returned"
    /\ UNCHANGED <<expected, grf_calls, grf_called, debug_assertions, finishes>>
    /\ UNCHANGED <<oopVars, layout, opened, thor_entries, ip_result>>
    /\ UNCHANGED <<allocVars, orchVars, thorVars>>

\* the loop is over: Ok(()) is the value of the function, and the builder is
\* dropped on the way out
IpReturn ==
    /\ ip_pc = "loop"
    /\ DOMAIN thor_entries = {}
    /\ OopDrop(builder, obj)
    /\ ip_ret' = Ok(0)
    /\ ip_pc' = "returned"
    /\ UNCHANGED <<expected, grf_calls, grf_called, debug_assertions, finishes>>
    /\ UNCHANGED <<oopVars, layout, opened, thor_entries, ip_result>>
    /\ UNCHANGED <<allocVars, orchVars, thorVars>>

NextIp ==
    \/ IpOpen \/ IpOpenIoFails \/ IpEntry \/ IpImportIoFails \/ IpReturn

(***************************************************************************)
(* THOR builder and reader (gruf/src/thor/builder.rs, reader.rs).          *)
(*                                                                         *)
(* Paths and file data are sequences of characters, so that the text of    *)
(* data.integrity is formatted and parsed character by character.  The     *)
(* output file is written front to back: a header slot, then the bytes at  *)
(* their absolute offset.                                                  *)
(***************************************************************************)
THOR_HEADER_FIXED_SIZE == 32
MULTIPLE_FILES_TABLE_DESC_SIZE == 8
INTEGRITY_FILE_NAME == <<"data.integrity">>

HexDigits == <<"0", "1", "2", "3", "4", "5", "6", "7", "8", "9",
               "a", "b", "c", "d", "e", "f">>
Chars == HexDigits \o <<"x", "=", "CR", "LF", "data.integrity">>
CharCode(c) == CHOOSE i \in 1..Len(Chars) : Chars[i] = c
Whitespace == {"CR", "LF"}

\* crc32::checksum_ieee: 0 for the empty input, distinct for distinct short
\* inputs; the checksums of the model stay below ChecksumModulus
RECURSIVE checksum_ieee(_)
checksum_ieee(data) ==
    IF data = <<>>
    THEN 0
    ELSE (checksum_ieee(SubSeq(data, 1, Len(data) - 1)) * (Len(Chars) + 1)
          + CharCode(data[Len(data)])) % ChecksumModulus

Pow16(n) == IF n = 0 THEN 1 ELSE IF n = 1 THEN 16 ELSE IF n = 2 THEN 256
            ELSE IF n = 3 THEN 4096 ELSE IF n = 4 THEN 65536
            ELSE IF n = 5 THEN 1048576 ELSE IF n = 6 THEN 16777216
            ELSE 268435456

\* format!("0x{:08x}", n)
FormatHex(n) == <<"0", "x">> \o [i \in 1..8 |-> HexDigits[((n \div Pow16(8 - i)) % 16) + 1]]

RECURSIVE trim_start_matches_0x(_)
trim_start_matches_0x(s) ==
    IF Len(s) >= 2 /\ s[1] = "0" /\ s[2] = "x"
    THEN trim_start_matches_0x(SubSeq(s, 3, Len(s)))
    ELSE s

RECURSIVE HexValue(_)
HexValue(s) ==
    IF s = <<>>
    THEN 0
    ELSE HexValue(SubSeq(s, 1, Len(s) - 1)) * 16
         + (CHOOSE i \in 1..16 : HexDigits[i] = s[Len(s)]) - 1

\* u32::from_str_radix(s, 16): a number, or -1 for Err
from_str_radix_16(s) ==
    IF /\ s # <<>>
       /\ \A i \in 1..Len(s) : \E d \in 1..16 : HexDigits[d] = s[i]
    THEN HexValue(s)
    ELSE -1

RECURSIVE SplitOn(_, _)
SplitOn(s, sep) ==
    IF \E i \in 1..Len(s) : s[i] = sep
    THEN LET i == CHOOSE i \in 1..Len(s) : s[i] = sep /\ \A j \in 1..(i - 1) : s[j] # sep
         IN  <<SubSeq(s, 1, i - 1)>> \o SplitOn(SubSeq(s, i + 1, Len(s)), sep)
    ELSE <<s>>

RECURSIVE Trim(_)
Trim(s) ==
    IF s # <<>> /\ s[1] \in Whitespace THEN Trim(Tail(s))
    ELSE IF s # <<>> /\ s[Len(s)] \in Whitespace THEN Trim(SubSeq(s, 1, Len(s) - 1))
    ELSE s

\* parse_data_integrity_info: the lines in order, each a <<file_name, hash>>
\* pair or skipped; collected into a map, a later line replacing an earlier
\* one for the same name
RECURSIVE CollectPairs(_, _)
CollectPairs(lines, acc) ==
    IF lines = <<>>
    THEN acc
    ELSE LET words == SplitOn(Trim(lines[1]), "=")
             hash == IF Len(words) >= 2
                     THEN from_str_radix_16(trim_start_matches_0x(words[2]))
                     ELSE -1
         IN  CollectPairs(Tail(lines),
                          IF hash >= 0 THEN MapInsert(acc, words[1], hash) ELSE acc)

parse_data_integrity_info(data) == CollectPairs(SplitOn(data, "LF"), <<>>)

\* the value of an entries slot holding None (a removal)
None == [some |-> FALSE, offset |-> 0, size |-> 0, size_compressed |-> 0, checksum |-> 0]
Some(offset, size, size_compressed, checksum) ==
    [some |-> TRUE, offset |-> offset, size |-> size,
     size_compressed |-> size_compressed, checksum |-> checksum]

NoThorHeader == [magic |-> FALSE, use_grf_merging |-> FALSE, file_count |-> 0,
                 mode |-> 0, target_grf_name |-> <<>>,
                 file_table_compressed_size |-> 0, file_table_offset |-> 0]

\* ThorArchiveBuilder::new over a new file: the placeholder leaves the write
\* position after the header
ThorArchiveBuilder_new(use_grf_merging, target_grf_name, include_checksums) ==
    [b |-> [entries |-> <<>>, finished |-> FALSE, use_grf_merging |-> use_grf_merging,
            target_grf_name |-> target_grf_name,
            include_checksums |-> include_checksums],
     f |-> [header |-> NoThorHeader, bytes |-> <<>>,
            pos |-> THOR_HEADER_FIXED_SIZE + Len(target_grf_name)
                    + MULTIPLE_FILES_TABLE_DESC_SIZE]]

\* a write at the current position of the file
WriteAtPos(f, bytes) == [WriteAt(f, f.pos, bytes)
                       EXCEPT !.pos = f.pos + Len(bytes)]

append_file_update(b, f, entry_path, data) ==
    LET data_checksum == IF b.include_checksums THEN checksum_ieee(data) ELSE 0
        compressed_data == ZlibEncode(data)
    IN  [b |-> [b EXCEPT !.entries = MapInsert(@, entry_path,
                    Some(f.pos, Len(data), Len(compressed_data), data_checksum))],
         f |-> WriteAtPos(f, compressed_data),
         ret |-> Ok(0)]

\* a variant that drops the removal
append_file_removal_ignored(b, f, entry_path) ==
    [b |-> b, f |-> f, ret |-> Ok(0)]

append_file_removal(b, f, entry_path) ==
    [b |-> [b EXCEPT !.entries = MapInsert(@, entry_path, None)], f |-> f, ret |-> Ok(0)]

\* the orders a HashMap may iterate the given keys in
IterationOrders(keys) ==
    {order \in [1..Cardinality(keys) -> keys] :
        \A i, j \in DOMAIN order : i # j => order[i] # order[j]}

RECURSIVE IntegrityLines(_, _)
IntegrityLines(entries, order) ==
    IF order = <<>>
    THEN <<>>
    ELSE (IF entries[order[1]].some
          THEN order[1] \o <<"=">> \o FormatHex(entries[order[1]].checksum)
               \o <<"CR", "LF">>
          ELSE <<>>)
         \o IntegrityLines(entries, Tail(order))

\* generate_data_integrity: one content per iteration order of the entries
generate_data_integrity(b) ==
    {IntegrityLines(b.entries, order) : order \in IterationOrders(DOMAIN b.entries)}

ThorSerializeTable(entries) ==
    {[relative_path |-> p,
      flags |-> IF entries[p].some THEN 0 ELSE 1,
      offset |-> entries[p].offset,
      size_compressed |-> entries[p].size_compressed,
      size |-> entries[p].size] : p \in DOMAIN entries}

write_file_table(b, f) ==
    LET compressed_table == CompressTable(ThorSerializeTable(b.entries))
    IN  [f |-> WriteAtPos(f, compressed_table),
         table_offset |-> f.pos,
         compressed_table_size |-> Len(compressed_table)]

write_thor_header(f, use_grf_merging, file_count, target_grf_name, file_table_compressed_size, file_table_offset) ==
    [f EXCEPT !.header = [magic |-> TRUE, use_grf_merging |-> use_grf_merging,
                          file_count |-> file_count, mode |-> 48,
                          target_grf_name |-> target_grf_name,
                          file_table_compressed_size |-> file_table_compressed_size,
                          file_table_offset |-> file_table_offset],
              !.pos = THOR_HEADER_FIXED_SIZE + Len(target_grf_name)
                      + MULTIPLE_FILES_TABLE_DESC_SIZE]

\* the rest of finish once data.integrity has been appended (or was not asked for)
FinishTable(b, f) ==
    LET t == write_file_table(b, f)
    IN  [b |-> b,
         f |-> write_thor_header(t.f, b.use_grf_merging, Cardinality(DOMAIN b.entries),
                                 b.target_grf_name, t.compressed_table_size,
                                 t.table_offset),
         ret |-> Ok(0)]

\* ThorArchiveBuilder::finish: the set of outcomes, one per order in which
\* generate_data_integrity may list the entries
thor_finish(b, f) ==
    IF b.finished
    THEN {[b |-> b, f |-> f, ret |-> Ok(0)]}
    ELSE LET b1 == [b EXCEPT !.finished = TRUE]
         IN  IF b.include_checksums
             THEN {LET u == append_file_update(b1, f, INTEGRITY_FILE_NAME, content)
                   IN  FinishTable(u.b, u.f) : content \in generate_data_integrity(b1)}
             ELSE {FinishTable(b1, f)}

\* ZlibDecoder::read_to_end over a buffer holding any stream ZlibEncode makes
ZlibDecodeAny(bytes) ==
    IF /\ Len(bytes) >= 1
       /\ bytes[1].kind = "zlib"
       /\ Len(bytes) >= Len(ZlibEncode(bytes[1].data))
       /\ SubSeq(bytes, 1, Len(ZlibEncode(bytes[1].data))) = ZlibEncode(bytes[1].data)
    THEN Ok(bytes[1].data)
    ELSE [tag |-> "Err", val |-> <<>>]

\* parse_thor_patch for the MultipleFiles mode the builder writes
parse_thor_patch(f) ==
    IF ~f.header.magic
    THEN ParsingError
    ELSE IF f.header.mode # 48
    THEN ParsingError
    ELSE IF f.header.file_table_offset
            < THOR_HEADER_FIXED_SIZE + Len(f.header.target_grf_name)
              + MULTIPLE_FILES_TABLE_DESC_SIZE
    THEN ParsingError
    ELSE LET bytes == ReadAt(f, f.header.file_table_offset,
                             f.header.file_table_compressed_size)
         IN  IF ~(/\ Len(bytes) >= 1
                  /\ bytes[1].kind = "table"
                  /\ bytes = CompressTable(bytes[1].table))
             THEN ParsingError
             ELSE Ok([p \in {e.relative_path : e \in bytes[1].table} |->
                        LET e == CHOOSE e \in bytes[1].table : e.relative_path = p
                            is_removed == e.flags % 2 = 1
                        IN  [relative_path |-> p,
                             is_removed |-> is_removed,
                             offset |-> IF is_removed THEN 0 ELSE e.offset,
                             size_compressed |-> IF is_removed THEN 0
                                                 ELSE e.size_compressed,
                             size |-> IF is_removed THEN 0 ELSE e.size]])

EntryNotFound == [tag |-> "EntryNotFound", val |-> <<>>]

\* ThorArchive::file_count: the number of entries read from the file table
ThorArchive_file_count(entries) == Cardinality(DOMAIN entries)

\* ThorArchive::read_file_content
thor_read_file_content(f, entries, file_path) ==
    IF file_path \notin DOMAIN entries
    THEN EntryNotFound
    ELSE IF entries[file_path].size_compressed = 0
    THEN Ok(<<>>)
    ELSE LET content == ReadAt(f, entries[file_path].offset,
                               entries[file_path].size_compressed)
             decompressed == ZlibDecodeAny(content)
         IN  IF decompressed.tag # "Ok"
             THEN decompressed
             ELSE IF Len(decompressed.val) # entries[file_path].size
             THEN ParsingError
             ELSE decompressed

\* ThorArchive::is_valid: Ok(TRUE), Ok(FALSE) or the error of reading
\* data.integrity
ThorArchive_is_valid(f, entries) ==
    LET integrity_data == thor_read_file_content(f, entries, INTEGRITY_FILE_NAME)
    IN  IF integrity_data.tag # "Ok"
        THEN integrity_data
        ELSE LET integrity_info == parse_data_integrity_info(integrity_data.val)
             IN  Ok(\A file_path \in DOMAIN integrity_info :
                       LET file_content == thor_read_file_content(f, entries, file_path)
                       IN  /\ file_content.tag = "Ok"
                           /\ checksum_ieee(file_content.val) = integrity_info[file_path])

(***************************************************************************)
(* The THOR builder driven by a client: appends in any order, then finish  *)
(* (tests of thor/builder.rs:335-414).                                     *)
(***************************************************************************)
ThorPaths == {<<"a">>, <<"a", "=", "1">>, INTEGRITY_FILE_NAME}
\* a data.integrity text a client may write itself: one line for path a
ClientManifest == <<"a", "=">> \o FormatHex(checksum_ieee(<<"0">>)) \o <<"CR", "LF">>
ThorDatas == {<<>>, <<"0">>, <<"1">>, ClientManifest}

InitThor ==
    /\ thor_builder = ThorArchiveBuilder_new(FALSE, <<>>, FALSE).b
    /\ thor_obj = ThorArchiveBuilder_new(FALSE, <<>>, FALSE).f
    /\ thor_expected = <<>>
    /\ thor_calls = 0
    /\ thor_ret = Ok(0)

ThorStep(r) ==
    /\ thor_builder' = r.b
    /\ thor_obj' = r.f
    /\ thor_ret' = r.ret
    /\ UNCHANGED <<allocVars, orchVars, grfVars>>

\* the client creates the builder with include_checksums = true instead
ThorNewWithChecksums ==
    /\ thor_calls = 0
    /\ ~thor_builder.finished
    /\ ~thor_builder.include_checksums
    /\ ThorStep([b |-> ThorArchiveBuilder_new(FALSE, <<>>, TRUE).b,
                 f |-> ThorArchiveBuilder_new(FALSE, <<>>, TRUE).f,
                 ret |-> Ok(0)])
    /\ UNCHANGED <<thor_expected, thor_calls>>

AppendFileUpdate ==
    /\ ~thor_builder.finished
    /\ thor_calls < MaxAppends
    /\ \E entry_path \in ThorPaths, data \in ThorDatas :
          /\ ThorStep(append_file_update(thor_builder, thor_obj, entry_path, data))
          /\ thor_expected' = MapInsert(thor_expected, entry_path,
                                        [removed |-> FALSE, data |-> data])
    /\ thor_calls' = thor_calls + 1

AppendFileRemoval ==
    /\ ~thor_builder.finished
    /\ thor_calls < MaxAppends
    /\ \E entry_path \in ThorPaths :
          /\ ThorStep(append_file_removal(thor_builder, thor_obj, entry_path))
          /\ thor_expected' = MapInsert(thor_expected, entry_path,
                                        [removed |-> TRUE, data |-> <<>>])
    /\ thor_calls' = thor_calls + 1

ThorFinish ==
    /\ ~thor_builder.finished
    /\ \E r \in thor_finish(thor_builder, thor_obj) : ThorStep(r)
    /\ UNCHANGED <<thor_expected, thor_calls>>

NextThor == ThorNewWithChecksums \/ AppendFileUpdate \/ AppendFileRemoval \/ ThorFinish

(***************************************************************************)
(* The patch list (gruf/src/thor/reader.rs).  A line of plist.txt is its   *)
(* first two words: the first parses as an index or does not (index -1),   *)
(* the second is the file name or is missing ("").                         *)
(***************************************************************************)
FileNames == {"a.thor"}
Indices == 1..MaxIndex
PlistLines == [index : Indices \cup {-1}, file_name : FileNames \cup {""}]

RECURSIVE SeqsUpTo(_, _)
\* the sequences over S of length at most n
SeqsUpTo(S, n) ==
    IF n = 0 THEN {<<>>}
    ELSE LET shorter == SeqsUpTo(S, n - 1)
         IN shorter \cup {Append(s, x) : s \in {t \in shorter : Len(t) = n - 1}, x \in S}

PlistContents == SeqsUpTo(PlistLines, MaxPatches)

\* ThorPatchInfo::from_string parses the line or returns None
ParsesAsPatch(line) == line.index >= 0 /\ line.file_name # ""

\* where sort_by (a stable sort) puts x in the sorted list t: after every
\* element whose index is not greater
InsertByIndex(t, x) ==
    LET k == Cardinality({i \in DOMAIN t : t[i].index <= x.index})
    IN SubSeq(t, 1, k) \o <<x>> \o SubSeq(t, k + 1, Len(t))

RECURSIVE SortByIndex(_)
SortByIndex(s) ==
    IF s = <<>> THEN <<>>
    ELSE InsertByIndex(SortByIndex(SubSeq(s, 1, Len(s) - 1)), s[Len(s)])

\* patch_list_from_string
patch_list_from_string(content) ==
    SortByIndex(SelectSeq(content, ParsesAsPatch))

(***************************************************************************)
(* The cache file (patcher/cache.rs): missing, unreadable (bincode cannot  *)
(* decode it, as an empty file) or holding a PatcherCache.                 *)
(***************************************************************************)
CacheMissing == [kind |-> "missing", last_patch_index |-> 0]
CacheUnreadable == [kind |-> "unreadable", last_patch_index |-> 0]
Cached(i) == [kind |-> "ok", last_patch_index |-> i]

\* a variant that drops the patches up to the cached index whenever the
\* cache can be read
FilterPatchList_unconditional(list, c) ==
    IF c.kind = "ok"
    THEN LET Above(x) == x.index > c.last_patch_index
         IN SelectSeq(list, Above)
    ELSE list

\* interruptible_patcher_routine, lines 87-98: when the cache can be read and
\* some patch carries the cached index, keep the patches above it
FilterPatchList(list, c) ==
    IF c.kind = "ok" /\ \E i \in DOMAIN list : list[i].index = c.last_patch_index
    THEN LET Above(x) == x.index > c.last_patch_index
         IN SelectSeq(list, Above)
    ELSE list

(***************************************************************************)
(* Downloads.  The body the server returns for a pack decides what         *)
(* ThorArchive::open and is_valid make of the downloaded file.             *)
(***************************************************************************)
CONCURRENT_DOWNLOADS == 32

PackBodies == {"valid", "no_integrity", "crc_mismatch", "bad_integrity", "not_thor"}

\* ThorArchive::is_valid on an archive that opens
is_valid(body) ==
    CASE body = "valid" -> "Ok(true)"
      [] body = "no_integrity" -> "EntryNotFound"
      [] body = "crc_mismatch" -> "Ok(false)"
      [] OTHER -> "Err"

\* is_archive_valid accepting an archive whose is_valid is Ok(false)
is_archive_valid_ignoring_false(body) ==
    IF body = "not_thor" THEN "Err"
    ELSE IF is_valid(body) \in {"EntryNotFound", "Ok(true)", "Ok(false)"} THEN "Ok(true)"
    ELSE "Err"

\* is_archive_valid
is_archive_valid(body) ==
    IF body = "not_thor" THEN "Err"
    ELSE CASE is_valid(body) = "EntryNotFound" -> "Ok(true)"
           [] is_valid(body) = "Err" -> "Err"
           [] OTHER -> is_valid(body)

\* the closure given to buffer_unordered, after download_patch_to_file
\* succeeded: Ok when no integrity check is asked or the archive is valid
DownloadAccepted(body) ==
    ~check_integrity \/ is_archive_valid(body) = "Ok(true)"

\* no download has completed
NoPack == [body |-> "none", ret |-> "none"]

\* the pack of a download that completed, with the result of
\* is_archive_valid when the closure calls it
Checked(body) ==
    [body |-> body,
     ret |-> IF check_integrity /\ body # "http_error"
             THEN is_archive_valid(body) ELSE "not called"]

\* the pack is corrupt: is_valid returns false or fails with an error other
\* than EntryNotFound
IsCorrupt(body) == body # "not_thor" /\ is_valid(body) \in {"Ok(false)", "Err"}

\* download_patches_concurrent returning vec as collected
KeepOrder(v) == {v}

\* vec.sort_unstable_by(index): some arrangement of vec ascending by index;
\* which one, among elements of equal index, is not specified
sort_unstable_by_index(v) ==
    {q \in {[i \in DOMAIN v |-> v[p[i]]] : p \in Permutations(DOMAIN v)} :
        \A i, j \in DOMAIN q : i < j => q[i].index <= q[j].index}

(***************************************************************************)
(* Statuses dispatched to the UI.                                          *)
(***************************************************************************)
\* a variant that reports the end of a complete run as an Error
ReadyAsError == [status |-> "Error", msg |-> "", done |-> 0, total |-> 0]
Ready == [status |-> "Ready", msg |-> "", done |-> 0, total |-> 0]
Error(m) == [status |-> "Error", msg |-> m, done |-> 0, total |-> 0]
DownloadInProgress(n, t) == [status |-> "DownloadInProgress", msg |-> "", done |-> n, total |-> t]
InstallationInProgress(n, t) ==
    [status |-> "InstallationInProgress", msg |-> "", done |-> n, total |-> t]

Commands == {"Start", "CancelUpdate", "ApplyPatch", "Quit"}
IsCancel(cmd) == cmd \in {"CancelUpdate", "Quit"}

\* a variant that takes every command for an unexpected one
wait_for_cancellation_unexpected(cmd) ==
    "Failed to download patches"

\* wait_for_cancellation on the command it receives, and the message
\* interruptible_patcher_routine makes of its result
wait_for_cancellation(cmd) ==
    IF IsCancel(cmd) THEN "Patching was canceled" ELSE "Failed to download patches"

\* check_for_cancellation: try_recv takes at most one command
check_for_cancellation(queue) ==
    IF queue = <<>> THEN [rx |-> queue, interrupted |-> FALSE]
    ELSE [rx |-> Tail(queue), interrupted |-> IsCancel(Head(queue))]

(***************************************************************************)
(* The orchestrator.                                                       *)
(***************************************************************************)
RunStart(c) ==
    /\ pc' = "idle"
    /\ rx' = <<>>
    /\ cache' = c
    /\ patch_list' = <<>>
    /\ started' = 0
    /\ in_flight' = {}
    /\ vec' = <<>>
    /\ pending_patch_queue' = <<>>
    /\ patch_number' = 0
    /\ ui' = <<>>
    /\ sent' = 0
    /\ cache0' = c
    /\ applied' = <<>>
    /\ fully_applied' = <<>>
    /\ mutated' = FALSE
    /\ corrupt_found' = FALSE
    /\ arrived' = <<>>
    /\ fetched' = <<>>
    /\ pack' = NoPack

InitOrch ==
    /\ pc = "idle"
    /\ rx = <<>>
    /\ check_integrity \in BOOLEAN
    /\ cache = CacheMissing
    /\ patch_list = <<>>
    /\ started = 0
    /\ in_flight = {}
    /\ vec = <<>>
    /\ pending_patch_queue = <<>>
    /\ patch_number = 0
    /\ ui = <<>>
    /\ runs = 1
    /\ sent = 0
    /\ cache0 = CacheMissing
    /\ applied = <<>>
    /\ fully_applied = <<>>
    /\ mutated = FALSE
    /\ corrupt_found = FALSE
    /\ arrived = <<>>
    /\ fetched = <<>>
    /\ pack = NoPack

\* a variant that dispatches the Error twice
FailTwice(m) ==
    /\ pc' = "done"
    /\ ui' = Append(Append(ui, Error(m)), Error(m))

\* the run ends: patcher_thread_routine dispatches Error for an Err result
Fail(m) ==
    /\ pc' = "done"
    /\ ui' = Append(ui, Error(m))

\* the UI thread sends a command
SendCommand ==
    \E cmd \in Commands :
        /\ pc \notin {"done", "exited", "panicked"}
        /\ sent < MaxSent
        /\ rx' = Append(rx, cmd)
        /\ sent' = sent + 1
        /\ arrived' = Append(arrived, [cmd |-> cmd, at |-> pc])
        /\ UNCHANGED <<pc, check_integrity, cache, patch_list, started, in_flight, vec,
                       pending_patch_queue, patch_number, ui, runs, cache0, applied,
                       fully_applied, mutated, corrupt_found>>
        /\ UNCHANGED <<allocVars, grfVars, thorVars, fetched, pack>>

\* a wait_for_start_command that would end the task on a cancel or quit
WaitForStartCommand_cancelable ==
    /\ pc = "idle"
    /\ rx # <<>>
    /\ rx' = Tail(rx)
    /\ pc' = IF Head(rx) = "Start" THEN "fetch"
             ELSE IF IsCancel(Head(rx)) THEN "exited" ELSE "idle"
    /\ UNCHANGED <<check_integrity, cache, patch_list, started, in_flight, vec,
                   pending_patch_queue, patch_number, ui, runs, sent, cache0, applied,
                   fully_applied, mutated, corrupt_found>>
    /\ UNCHANGED <<allocVars, grfVars, thorVars, arrived, fetched, pack>>

\* wait_for_start_command: one turn of its loop
WaitForStartCommand ==
    /\ pc = "idle"
    /\ rx # <<>>
    /\ rx' = Tail(rx)
    /\ pc' = IF Head(rx) = "Start" THEN "fetch" ELSE "idle"
    /\ UNCHANGED <<check_integrity, cache, patch_list, started, in_flight, vec,
                   pending_patch_queue, patch_number, ui, runs, sent, cache0, applied,
                   fully_applied, mutated, corrupt_found>>
    /\ UNCHANGED <<allocVars, grfVars, thorVars, arrived, fetched, pack>>

\* wait_for_start_command when every sender is gone and the channel is
\* drained: recv yields None, the function returns an error and
\* patcher_thread_routine logs it and returns, dispatching nothing
WaitForStartCommandClosed ==
    /\ pc = "idle"
    /\ rx = <<>>
    /\ pc' = "exited"
    /\ UNCHANGED <<rx, check_integrity, cache, patch_list, started, in_flight, vec,
                   pending_patch_queue, patch_number, ui, runs, sent, cache0, applied,
                   fully_applied, mutated, corrupt_found>>
    /\ UNCHANGED <<allocVars, grfVars, thorVars, arrived, fetched, pack>>

\* fetch_patch_list fails
FetchFails ==
    /\ pc = "fetch"
    /\ Fail("Failed to retrieve the patch list")
    /\ UNCHANGED <<rx, check_integrity, cache, patch_list, started, in_flight, vec,
                   pending_patch_queue, patch_number, runs, sent, cache0, applied,
                   fully_applied, mutated, corrupt_found>>
    /\ UNCHANGED <<allocVars, grfVars, thorVars, arrived, fetched, pack>>

\* interruptible_patcher_routine up to the call of download_patches_concurrent,
\* and that function's first dispatch
FetchPatchListFrom(contents) ==
    \E content \in contents :
        LET list == FilterPatchList(patch_list_from_string(content), cache)
        IN /\ pc = "fetch"
           /\ fetched' = patch_list_from_string(content)
           /\ patch_list' = list
           /\ pc' = "download"
           /\ ui' = Append(ui, DownloadInProgress(0, Len(list)))
           /\ UNCHANGED <<rx, check_integrity, cache, started, in_flight, vec,
                          pending_patch_queue, patch_number, runs, sent, cache0, applied,
                          fully_applied, mutated, corrupt_found>>
           /\ UNCHANGED <<allocVars, grfVars, thorVars, arrived, pack>>

\* the server returns any of the short patch lists
FetchPatchList == pc = "fetch" /\ FetchPatchListFrom(PlistContents)

\* a variant of StartDownload that polls every future of the stream at once
StartDownload_unbounded ==
    /\ pc = "download"
    /\ started < Len(patch_list)
    /\ started' = started + 1
    /\ in_flight' = in_flight \cup {started + 1}
    /\ UNCHANGED <<pc, rx, check_integrity, cache, patch_list, vec, pending_patch_queue,
                   patch_number, ui, runs, sent, cache0, applied, fully_applied, mutated,
                   corrupt_found>>
    /\ UNCHANGED <<allocVars, grfVars, thorVars, arrived, fetched, pack>>

\* buffer_unordered takes the next future from the stream
StartDownload ==
    /\ pc = "download"
    /\ started < Len(patch_list)
    /\ Cardinality(in_flight) < CONCURRENT_DOWNLOADS
    /\ started' = started + 1
    /\ in_flight' = in_flight \cup {started + 1}
    /\ UNCHANGED <<pc, rx, check_integrity, cache, patch_list, vec, pending_patch_queue,
                   patch_number, ui, runs, sent, cache0, applied, fully_applied, mutated,
                   corrupt_found>>
    /\ UNCHANGED <<allocVars, grfVars, thorVars, arrived, fetched, pack>>

\* a download completes and its pack is accepted
FinishDownload ==
    \E i \in in_flight, body \in PackBodies :
        /\ pc = "download"
        /\ DownloadAccepted(body)
        /\ in_flight' = in_flight \ {i}
        /\ vec' = Append(vec, patch_list[i])
        /\ pack' = Checked(body)
        /\ corrupt_found' = (corrupt_found \/ (check_integrity /\ IsCorrupt(body)))
        /\ UNCHANGED <<pc, rx, check_integrity, cache, patch_list, started,
                       pending_patch_queue, patch_number, ui, runs, sent, cache0, applied,
                       fully_applied, mutated>>
        /\ UNCHANGED <<allocVars, grfVars, thorVars, arrived, fetched>>

\* a download fails (download_patch_to_file returns an error) or its pack is
\* refused by the integrity check: try_collect returns the error
DownloadFails ==
    \E i \in in_flight, body \in PackBodies \cup {"http_error"} :
        /\ pc = "download"
        /\ body = "http_error" \/ ~DownloadAccepted(body)
        /\ corrupt_found' = (corrupt_found
                              \/ (body # "http_error" /\ check_integrity /\ IsCorrupt(body)))
        /\ Fail("Failed to download patches")
        /\ pack' = Checked(body)
        /\ UNCHANGED <<rx, check_integrity, cache, patch_list, started, in_flight, vec,
                       pending_patch_queue, patch_number, runs, sent, cache0, applied,
                       fully_applied, mutated>>
        /\ UNCHANGED <<allocVars, grfVars, thorVars, arrived, fetched>>

\* wait_for_cancellation receives a command while the downloads run
DownloadInterrupted ==
    /\ pc = "download"
    /\ rx # <<>>
    /\ rx' = Tail(rx)
    /\ Fail(wait_for_cancellation(Head(rx)))
    /\ UNCHANGED <<check_integrity, cache, patch_list, started, in_flight, vec,
                   pending_patch_queue, patch_number, runs, sent, cache0, applied,
                   fully_applied, mutated, corrupt_found>>
    /\ UNCHANGED <<allocVars, grfVars, thorVars, arrived, fetched, pack>>

\* a download stage that would hand over what it has as soon as one download
\* is done
DownloadsCollected_eager ==
    \E q \in sort_unstable_by_index(vec) :
        /\ pc = "download"
        /\ vec # <<>>
        /\ pending_patch_queue' = q
        /\ patch_number' = 0
        /\ pc' = "apply"
        /\ ui' = Append(ui, InstallationInProgress(0, Len(q)))
        /\ UNCHANGED <<rx, check_integrity, cache, patch_list, started, in_flight, vec,
                       runs, sent, cache0, applied, fully_applied, mutated, corrupt_found>>
        /\ UNCHANGED <<allocVars, grfVars, thorVars, arrived, fetched, pack>>

\* every download is collected: download_patches_concurrent sorts and returns,
\* apply_patches dispatches its first status
DownloadsCollected ==
    \E q \in sort_unstable_by_index(vec) :
        /\ pc = "download"
        /\ Len(vec) = Len(patch_list)
        /\ pending_patch_queue' = q
        /\ patch_number' = 0
        /\ pc' = "apply"
        /\ ui' = Append(ui, InstallationInProgress(0, Len(q)))
        /\ UNCHANGED <<rx, check_integrity, cache, patch_list, started, in_flight, vec,
                       runs, sent, cache0, applied, fully_applied, mutated, corrupt_found>>
        /\ UNCHANGED <<allocVars, grfVars, thorVars, arrived, fetched, pack>>

InApplyLoop == pc = "apply" /\ patch_number < Len(pending_patch_queue)
pending_patch == pending_patch_queue[patch_number + 1]

\* apply_patches, one iteration: a cancellation is found
ApplyCanceled ==
    /\ InApplyLoop
    /\ check_for_cancellation(rx).interrupted
    /\ rx' = check_for_cancellation(rx).rx
    /\ Fail("Patching was canceled")
    /\ UNCHANGED <<check_integrity, cache, patch_list, started, in_flight, vec,
                   pending_patch_queue, patch_number, runs, sent, cache0, applied,
                   fully_applied, mutated, corrupt_found>>
    /\ UNCHANGED <<allocVars, grfVars, thorVars, arrived, fetched, pack>>

\* apply_patches, one iteration: ThorArchive::open fails
ApplyOpenFails ==
    /\ InApplyLoop
    /\ ~check_for_cancellation(rx).interrupted
    /\ rx' = check_for_cancellation(rx).rx
    /\ Fail("Failed to apply patches")
    /\ UNCHANGED <<check_integrity, cache, patch_list, started, in_flight, vec,
                   pending_patch_queue, patch_number, runs, sent, cache0, applied,
                   fully_applied, mutated, corrupt_found>>
    /\ UNCHANGED <<allocVars, grfVars, thorVars, arrived, fetched, pack>>

\* apply_patches, one iteration: apply_patch_to_grf / apply_patch_to_disk
\* returns an error, before or after it has changed its target
ApplyFails ==
    \E partial \in BOOLEAN :
        /\ InApplyLoop
        /\ ~check_for_cancellation(rx).interrupted
        /\ rx' = check_for_cancellation(rx).rx
        /\ applied' = Append(applied, pending_patch.index)
        /\ mutated' = (mutated \/ partial)
        /\ Fail("Failed to apply patches")
        /\ UNCHANGED <<check_integrity, cache, patch_list, started, in_flight, vec,
                       pending_patch_queue, patch_number, runs, sent, cache0,
                       fully_applied, corrupt_found>>
        /\ UNCHANGED <<allocVars, grfVars, thorVars, arrived, fetched, pack>>

\* write_cache_file: File::create may fail (the file is left as it was), it
\* truncates the file, and serialize_into may fail after that
write_cache_file(c, new_cache) ==
    {c, CacheUnreadable, Cached(new_cache)}

\* apply_patches, one iteration: the patch is applied, the cache file is
\* written (a failure is logged and ignored), the status is dispatched
ApplySucceeds ==
    /\ InApplyLoop
    /\ \E written \in write_cache_file(cache, pending_patch.index) :
        /\ ~check_for_cancellation(rx).interrupted
        /\ rx' = check_for_cancellation(rx).rx
        /\ applied' = Append(applied, pending_patch.index)
        /\ fully_applied' = Append(fully_applied, pending_patch.index)
        /\ mutated' = TRUE
        /\ cache' = written
        /\ patch_number' = patch_number + 1
        /\ ui' = Append(ui, InstallationInProgress(patch_number + 1,
                                                   Len(pending_patch_queue)))
        /\ UNCHANGED <<pc, check_integrity, patch_list, started, in_flight, vec,
                       pending_patch_queue, runs, sent, cache0, corrupt_found>>
        /\ UNCHANGED <<allocVars, grfVars, thorVars, arrived, fetched, pack>>

\* apply_patches returns Ok: Ready is dispatched
ApplyDone ==
    /\ pc = "apply"
    /\ patch_number = Len(pending_patch_queue)
    /\ pc' = "done"
    /\ ui' = Append(ui, Ready)
    /\ UNCHANGED <<rx, check_integrity, cache, patch_list, started, in_flight, vec,
                   pending_patch_queue, patch_number, runs, sent, cache0, applied,
                   fully_applied, mutated, corrupt_found>>
    /\ UNCHANGED <<allocVars, grfVars, thorVars, arrived, fetched, pack>>

\* the patcher is started again; the cache file is what the last run left
NewRun ==
    /\ pc = "done"
    /\ runs < MaxRuns
    /\ runs' = runs + 1
    /\ check_integrity' \in BOOLEAN
    /\ RunStart(cache)
    /\ UNCHANGED <<allocVars, grfVars, thorVars>>

NextOrch ==
    \/ SendCommand \/ WaitForStartCommand \/ WaitForStartCommandClosed
    \/ FetchFails \/ FetchPatchList
    \/ StartDownload \/ FinishDownload \/ DownloadFails \/ DownloadInterrupted
    \/ DownloadsCollected \/ ApplyCanceled \/ ApplyOpenFails \/ ApplyFails
    \/ ApplySucceeds \/ ApplyDone \/ NewRun

(***************************************************************************)
(* Specifications.                                                         *)
(***************************************************************************)
vars == <<allocVars, orchVars, grfVars, thorVars>>

Init == InitAlloc /\ InitOrch /\ InitGrf /\ InitThor /\ InitOop /\ InitRead

\* the allocator alone: the orchestrator stays idle
InitIdle == NoPatchJob /\ NoArchive /\ Init /\ check_integrity /\ ~debug_assertions

\* the GRF builder alone, in a debug or a release build
InitBuild == NoPatchJob /\ NoArchive /\ Init /\ check_integrity

\* the orchestrator alone
InitRelease == NoPatchJob /\ NoArchive /\ Init /\ ~debug_assertions

SpecAlloc == InitIdle /\ [][NextAlloc]_vars

SpecOrch == InitRelease /\ [][NextOrch]_vars

SpecGrf == InitBuild /\ [][NextGrf]_vars

SpecThor == InitIdle /\ [][NextThor]_vars
\* a release build applies a patch out of place
InitPatch == NoArchive /\ Init /\ check_integrity /\ ~debug_assertions
SpecOop == InitPatch /\ [][NextOop]_vars
\* a release build opens an archive on disk
InitArchive == NoPatchJob /\ Init /\ check_integrity /\ ~debug_assertions
SpecRead == InitArchive /\ [][NextRead]_vars

\* the in-place patch of any version 2.0 archive with any patch
InitIp ==
    /\ layout \in IpLayouts
    /\ original = <<>>
    /\ patch \in Patches
    /\ Init
    /\ check_integrity
    /\ ~debug_assertions
SpecIp == InitIp /\ [][NextIp]_vars

(***************************************************************************)
(* The download stage over a patch list longer than CONCURRENT_DOWNLOADS.  *)
(* The run starts once the Start command has been taken; the server        *)
(* returns a list of CONCURRENT_DOWNLOADS + MaxWaiting patches and serves  *)
(* the packs in the order they are requested (every order of completion is *)
(* covered, for the short lists, by SpecOrch).                             *)
(***************************************************************************)
LongPlist ==
    [i \in 1..(CONCURRENT_DOWNLOADS + MaxWaiting) |-> [index |-> i, file_name |-> "a.thor"]]

InitStarted ==
    /\ NoPatchJob /\ NoArchive
    /\ InitAlloc /\ InitGrf /\ InitThor /\ InitOop /\ InitRead
    /\ ~debug_assertions
    /\ pc = "fetch"
    /\ rx = <<>>
    /\ check_integrity = TRUE
    /\ cache = CacheMissing
    /\ patch_list = <<>>
    /\ started = 0
    /\ in_flight = {}
    /\ vec = <<>>
    /\ pending_patch_queue = <<>>
    /\ patch_number = 0
    /\ ui = <<>>
    /\ runs = 1
    /\ sent = 1
    /\ cache0 = CacheMissing
    /\ applied = <<>>
    /\ fully_applied = <<>>
    /\ mutated = FALSE
    /\ corrupt_found = FALSE
    /\ arrived = <<[cmd |-> "Start", at |-> "idle"]>>
    /\ fetched = <<>>
    /\ pack = NoPack

FetchLongPatchList == pc = "fetch" /\ FetchPatchListFrom({LongPlist})

\* the download requested first among those in flight completes
FinishDownloadInOrder ==
    /\ FinishDownload
    /\ \A i \in in_flight' : \A j \in in_flight \ in_flight' : j < i

NextPool ==
    \/ FetchLongPatchList \/ StartDownload \/ FinishDownloadInOrder \/ DownloadFails

SpecPool == InitStarted /\ [][NextPool]_vars

(***************************************************************************)
(* Claims about the allocator, checked under SpecAlloc.                    *)
(***************************************************************************)
\* two regions <<offset, size>> share at least one offset
Overlap(a, b) == a[2] > 0 /\ b[2] > 0 /\ a[1] < b[1] + b[2] /\ b[1] < a[1] + a[2]

\* C5: the region [o, o+n) returned by alloc_chunk(n) does not overlap any
\* region that is allocated when the call is made.
C5_AllocReturnsUnusedRegion ==
    (last.op = "alloc" /\ last.ret.tag = "Ok") =>
        \A a \in BagToSet(last.pre_allocated) :
            ~Overlap(<<last.ret.val, last.size>>, a)

\* C6: no two chunks recorded as free are adjacent: no free chunk ends
\* exactly where another free chunk starts.
C6_NoAdjacentFreeChunks ==
    \A o1, o2 \in DOMAIN chunks : o1 # o2 => o1 + chunks[o1] # o2

\* C7: the offset-ordered map and the (size, offset)-ordered set describe
\* the same free chunks: (s, o) is in the set iff the map holds o with size s.
C7_MapAndSetInLockstep ==
    sizes = {<<chunks[o], o>> : o \in DOMAIN chunks}

\* the start of the region free_chunk(offset, size) releases, after its merge
\* with the free chunk ending at offset, if any
MergedStart(l, offset) ==
    LET left == LeftKey(l, offset)
    IN IF left >= 0 /\ left + l.chunks[left] = offset THEN left ELSE offset

\* C8: end_offset is at or beyond the end of every allocated chunk and of
\* every chunk recorded as free; after free_chunk of a region ending at
\* end_offset, end_offset is the start of the (left-merged) region and that
\* region is not recorded as free.
C8_EndOffsetBoundsAllChunks ==
    /\ \A a \in Outstanding : a[1] + a[2] <= end_offset
    /\ \A o \in DOMAIN chunks : o + chunks[o] <= end_offset
    /\ (last.op = "free" /\ last.offset + last.size = last.pre.end_offset) =>
           /\ end_offset = MergedStart(last.pre, last.offset)
           /\ end_offset \notin DOMAIN chunks

\* the chunk given to the last realloc_chunk abutted end_offset
ReallocAtEnd == last.offset + last.size = last.pre.end_offset
\* the chunk's immediate right neighbour was free and, with the chunk, large
\* enough for new_size
ReallocFitsNeighbour ==
    LET e == last.offset + last.size
    IN e \in DOMAIN last.pre.chunks
       /\ last.size + last.pre.chunks[e] >= last.new_size

NoDuplicateIndex(list) ==
    \A i, j \in DOMAIN list : i # j => list[i].index # list[j].index

\* C1 as stated: in one run the indices handed to the apply step are strictly
\* ascending, for every completion order and every patch list served.
C1_AppliedStrictlyAscending ==
    \A i, j \in DOMAIN applied : i < j => applied[i] < applied[j]

\* C1, amended: in one run the indices handed to the apply step never
\* descend, for every completion order and every patch list served, and are
\* strictly ascending when no two lines of the list carry the same index.
C1_AppliedAscending ==
    \A i, j \in DOMAIN applied :
        i < j => /\ applied[i] <= applied[j]
                 /\ NoDuplicateIndex(patch_list) => applied[i] < applied[j]

\* C1 witness: two patches were handed to the apply step after their downloads
\* completed in descending index order
C1_Witness ==
    /\ Len(applied) >= 2
    /\ Len(vec) >= 2
    /\ vec[1].index > vec[2].index

\* C2: when a run has ended, the cache file holds the index of the last patch
\* the run fully applied (the highest, the run applying in ascending order),
\* and is what it was before the run when no patch was fully applied.
C2_CursorIsLastFullyApplied ==
    pc = "done" =>
        IF fully_applied = <<>> THEN cache = cache0
        ELSE cache = Cached(fully_applied[Len(fully_applied)])

\* C3: over any sequence of runs, whatever list each run is served, the
\* persisted last_patch_index never decreases.
C3_CursorNeverDecreases ==
    [][(cache.kind = "ok" /\ cache'.kind = "ok")
          => cache'.last_patch_index >= cache.last_patch_index]_vars

\* C4: with check_integrity enabled, once a downloaded pack is found corrupt
\* the run has ended with an Error status and no patch of the run has been
\* handed to the apply step or has changed a GRF or the disk.
C4_CorruptPackAbortsBeforeApply ==
    corrupt_found =>
        /\ check_integrity
        /\ pc = "done"
        /\ ui # <<>> /\ ui[Len(ui)].status = "Error"
        /\ \A k \in DOMAIN ui : ui[k].status \notin {"Ready", "InstallationInProgress"}
        /\ applied = <<>>
        /\ ~mutated

\* C4 witness: a corrupt pack was found after another download of the run
\* had completed
C4_Witness ==
    /\ corrupt_found
    /\ pc = "done"
    /\ Len(vec) >= 1

\* the last status dispatched in this run
LastStatus == ui[Len(ui)]
Canceled == Error("Patching was canceled")
CancelArrivedIn(stage) ==
    \E i \in DOMAIN arrived : IsCancel(arrived[i].cmd) /\ arrived[i].at = stage

C16_CancelInChannelStopsApply ==
    [][(/\ InApplyLoop
        /\ \E i \in DOMAIN rx : IsCancel(rx[i])
        /\ sent' = sent) =>
          /\ applied' = applied
          /\ pc' = "done"
          /\ ui' = Append(ui, Canceled)]_vars

Errors == {i \in DOMAIN ui : ui[i].status = "Error"}

Terminals == {i \in DOMAIN ui : ui[i].status \in {"Ready", "Error"}}
Dispatched(status) == \E i \in DOMAIN ui : ui[i].status = status

C21_CursorFileNeverPartial ==
    [][cache' # cache =>
          /\ InApplyLoop
          /\ cache' = Cached(pending_patch.index)]_vars

(***************************************************************************)
(* Claims about the GRF builder.                                           *)
(***************************************************************************)
\* the archive as a reader sees it
Archive == GrfArchiveOpen(obj)

\* C10: after any sequence of add_file and remove_file calls that all
\* returned Ok, followed by a successful finish, the archive read back holds
\* exactly the paths added and not removed since, each with the size and the
\* decompressed content of the last add_file for that path.
C10_ArchiveReadsBackLastAdds ==
    (/\ builder.finished
     /\ grf_ret.tag = "Ok"
     /\ grf_called \subseteq {"add_file", "remove_file", "finish"}) =>
        /\ Archive.tag = "Ok"
        /\ DOMAIN Archive.val = DOMAIN expected
        /\ \A p \in DOMAIN expected :
              /\ Archive.val[p].size = Len(expected[p])
              /\ read_file_content(obj, Archive.val[p]) = Ok(expected[p])

\* the region of the file table as the header and the table info give it
TableRegion ==
    LET at == GRF_HEADER_SIZE + obj.header.file_table_offset
        info == parse_grf_table_info_200(ReadAt(obj, at, GRF_TABLE_INFO2_SIZE))
    IN  <<at, GRF_TABLE_INFO2_SIZE + info.val.table_size_compressed>>

EntryRegion(e) == <<e.offset, e.size_compressed_aligned>>

\* C11: in every archive finalized by the builder after add_file, import and
\* remove_file calls, the regions [offset, offset + size_compressed_aligned)
\* of distinct file-table entries are pairwise disjoint, none overlaps the
\* file table, and GrfArchiveBuilder::open on it does not fail with
\* 'Archive is malformed'.
C11_EntryRegionsDisjoint ==
    (builder.finished /\ grf_ret.tag = "Ok") =>
        /\ Archive.tag = "Ok"
        /\ \A p, q \in DOMAIN Archive.val :
              p # q => ~Overlap(EntryRegion(Archive.val[p]), EntryRegion(Archive.val[q]))
        /\ \A p \in DOMAIN Archive.val :
              ~Overlap(EntryRegion(Archive.val[p]), TableRegion)
        /\ \A order \in EntriesSortedByOffset(Archive.val) :
              list_available_chunks(Archive.val, order).tag = "Ok"

\* a step that calls finish: explicitly, or from drop
FinishCalled == finishes' = finishes + 1 \/ (dropped' /\ ~dropped)

\* C19: finalization is idempotent: a finish on a builder that is not
\* finished marks it finished and, when it returns Ok, has written the file
\* table and the header; every later finish, explicit or run on drop,
\* changes neither the output file nor the builder and returns Ok; the
\* header is written by a finish only.
C19_FinishIsIdempotent ==
    /\ [][(FinishCalled /\ builder.finished) =>
             /\ builder' = builder
             /\ obj' = obj
             /\ grf_ret' = Ok(0)]_vars
    /\ [][(FinishCalled /\ ~builder.finished) =>
             /\ builder'.finished
             /\ grf_ret'.tag = "Ok" =>
                   /\ obj'.header # NoHeader
                   /\ GrfArchiveOpen(obj').tag = "Ok"]_vars
    /\ [](obj.header # NoHeader => builder.finished)

C19_Witness ==
    /\ finishes = MaxFinishes
    /\ dropped
    /\ builder.finished
    /\ grf_ret = Ok(0)
    /\ obj.header # NoHeader
    /\ DOMAIN expected = Paths

\* the patched archive is completely written at grf_file_path
PatchedArchiveWritten ==
    /\ target = "new"
    /\ builder.finished
    /\ grf_ret.tag = "Ok"
    /\ obj.header # NoHeader
    /\ Archive.tag = "Ok"
    /\ DOMAIN Archive.val = DOMAIN MergeEntries(original, patch)

\* C20: during an out-of-place patch, from the rename up to the removal of
\* the backup the original archive is the file <target>.grf.bak, and the
\* backup is removed only when the patched archive has been completely
\* written, its file table and header included.
C20_BackupKeptUntilArchiveWritten ==
    /\ [](oop_pc \in {"open", "create", "import", "remove"} => backup = "original")
    /\ [][(backup = "original" /\ backup' = "absent") => PatchedArchiveWritten]_vars

(***************************************************************************)
(* Claims about archives on disk and builders opened on them.              *)
(***************************************************************************)
\* C22: after GrfArchive::open succeeds on an archive of version 1.1, 1.2,
\* 1.3 or 2.0 whose file table holds N entries with distinct paths,
\* get_entries yields exactly these N entries, each under its path, and N
\* equals file_count().
C22_OpenYieldsEveryEntry ==
    opened.tag = "Ok" =>
        /\ DOMAIN opened.val = DOMAIN layout.entries
        /\ Cardinality(DOMAIN opened.val) = header_file_count(ArchiveFile(layout))

(***************************************************************************)
(* Claims about the THOR builder and reader.                               *)
(***************************************************************************)
\* the archive as ThorArchive::new reads it
ThorRead == parse_thor_patch(thor_obj)
ThorDone == thor_builder.finished /\ thor_ret.tag = "Ok"
\* the path finish writes itself
Reserved == IF thor_builder.include_checksums THEN {INTEGRITY_FILE_NAME} ELSE {}

ReadsBackAs(p) ==
    /\ ThorRead.val[p].is_removed = thor_expected[p].removed
    /\ ~thor_expected[p].removed =>
          thor_read_file_content(thor_obj, ThorRead.val, p) = Ok(thor_expected[p].data)

\* C12 as stated: after any appends and finish, the archive read back has an
\* entry for every path, a removal exactly when the last call for the path
\* was append_file_removal, and every update entry reads back the bytes of
\* the last append_file_update for its path.
C12_ThorReadsBackLastAppends ==
    ThorDone =>
        /\ ThorRead.tag = "Ok"
        /\ DOMAIN thor_expected \subseteq DOMAIN ThorRead.val
        /\ \A p \in DOMAIN thor_expected : ReadsBackAs(p)

\* C12 amended: the same for every path but data.integrity when the builder
\* was created with include_checksums = true; the entries read back are the
\* paths appended and, with include_checksums, data.integrity.
C12_ThorReadsBackLastAppendsButManifest ==
    ThorDone =>
        /\ ThorRead.tag = "Ok"
        /\ DOMAIN ThorRead.val = DOMAIN thor_expected \cup Reserved
        /\ \A p \in DOMAIN thor_expected \ Reserved : ReadsBackAs(p)

C12_Witness ==
    /\ ThorDone
    /\ thor_builder.include_checksums
    /\ \E p, q \in DOMAIN thor_expected \ Reserved :
          /\ thor_expected[p].removed
          /\ ~thor_expected[q].removed
          /\ thor_expected[q].data # <<>>

\* the manifest the archive carries
Manifest ==
    parse_data_integrity_info(
        thor_read_file_content(thor_obj, ThorRead.val, INTEGRITY_FILE_NAME).val)

\* C13: when the archive contains data.integrity, is_valid returns Ok(true)
\* only if every entry that is neither internal nor a deletion is listed in
\* the manifest and its decompressed content has the CRC32 the manifest
\* gives for its path.
C13_ValidOnlyIfEveryEntryMatches ==
    (/\ ThorDone
     /\ ThorRead.tag = "Ok"
     /\ INTEGRITY_FILE_NAME \in DOMAIN ThorRead.val
     /\ ThorArchive_is_valid(thor_obj, ThorRead.val) = Ok(TRUE)) =>
        \A p \in DOMAIN ThorRead.val :
            (p # INTEGRITY_FILE_NAME /\ ~ThorRead.val[p].is_removed) =>
                /\ p \in DOMAIN Manifest
                /\ thor_read_file_content(thor_obj, ThorRead.val, p).tag = "Ok"
                /\ checksum_ieee(thor_read_file_content(thor_obj, ThorRead.val, p).val)
                   = Manifest[p]

\* the paths whose last call was an update, data.integrity aside
UpdatePaths ==
    {p \in DOMAIN thor_expected \ {INTEGRITY_FILE_NAME} : ~thor_expected[p].removed}

RECURSIVE ExpectedLines(_)
ExpectedLines(order) ==
    IF order = <<>>
    THEN <<>>
    ELSE order[1] \o <<"=">> \o FormatHex(checksum_ieee(thor_expected[order[1]].data))
         \o <<"CR", "LF">> \o ExpectedLines(Tail(order))

\* C14: a builder created with include_checksums = true finishes into an
\* archive whose data.integrity lists one line per update entry (none for
\* removals, none for data.integrity itself) and on which is_valid returns
\* Ok(true).
C14_ChecksumsArchiveIsValid ==
    (ThorDone /\ thor_builder.include_checksums) =>
        /\ ThorRead.tag = "Ok"
        /\ INTEGRITY_FILE_NAME \in DOMAIN ThorRead.val
        /\ \E order \in IterationOrders(UpdatePaths) :
              thor_read_file_content(thor_obj, ThorRead.val, INTEGRITY_FILE_NAME)
              = Ok(ExpectedLines(order))
        /\ ThorArchive_is_valid(thor_obj, ThorRead.val) = Ok(TRUE)

\* C23: the file-count field of the header the builder writes holds the
\* number of entries plus one, the reader reports the stored value minus
\* one, and file_count() of the reopened archive is the number of entries
\* appended.
C23_FileCountStoredPlusOne ==
    (ThorDone /\ ThorRead.tag = "Ok") =>
        /\ thor_obj.header.file_count = Cardinality(DOMAIN thor_builder.entries) + 1
        /\ ThorArchive_file_count(ThorRead.val) = thor_obj.header.file_count - 1
        /\ ThorArchive_file_count(ThorRead.val)
              = Cardinality(DOMAIN thor_expected \cup Reserved)


\* C24: finalizing a builder whose major version is 1 (one opened on an
\* existing v1.x archive), explicitly or on drop, returns
\* SerializationError as an error value and does not abort the process.
C24_FinishVersion1SignalsError ==
    [][("open" \in grf_called /\ FinishCalled
            /\ ~builder.finished /\ builder.version_major = 1) =>
          grf_ret' = SerializationError]_vars


\* the free chunks alloc_chunk(size) may take: those of size at least size
Sufficient(l, size) == {t \in l.sizes : t[1] >= size}

\* the best fit: of minimum size and, among those, of lowest offset
BestFit(l, size) ==
    {t \in Sufficient(l, size) :
        \A u \in Sufficient(l, size) :
            t[1] < u[1] \/ (t[1] = u[1] /\ t[2] <= u[2])}

\* the list once the chunk t has been taken for size bytes: the chunk goes,
\* the remainder is re-inserted at offset + size when the chunk is larger
Taken(l, t, size) ==
    LET removed == [l EXCEPT !.chunks = MapRemove(@, t[2]),
                             !.sizes = @ \ {t}]
    IN  IF t[1] > size
        THEN [removed EXCEPT !.chunks = MapInsert(@, t[2] + size, t[1] - size),
                             !.sizes = @ \cup {<<t[1] - size, t[2] + size>>}]
        ELSE removed

\* C25: alloc_chunk(size) takes, of the free chunks of size at least size,
\* one of minimum size and of lowest offset among those, removes it and
\* re-inserts the remainder at offset + size when the chunk is larger; when
\* no free chunk is large enough it returns end_offset and increases
\* end_offset by size.
C25_AllocChunkBestFit ==
    last.op = "alloc" =>
        IF Sufficient(last.pre, last.size) = {}
        THEN /\ last.ret = Ok(last.pre.end_offset)
             /\ ChunkList = [last.pre EXCEPT !.end_offset = @ + last.size]
        ELSE \E t \in BestFit(last.pre, last.size) :
                /\ last.ret = Ok(t[2])
                /\ ChunkList = Taken(last.pre, t, last.size)


\* the entries of the archive on disk: where each starts and how many bytes
\* it holds
OnDisk ==
    [p \in DOMAIN layout.entries |->
        [offset |-> layout.entries[p].offset,
         size_compressed_aligned |-> Len(Stored(layout.entries[p]))]]

EndOf(e) == e.offset + e.size_compressed_aligned

\* the gaps <<offset, size>> between the consecutive entries of an order
GapsOf(entries, order) ==
    {<<EndOf(entries[order[i]]),
       entries[order[i + 1]].offset - EndOf(entries[order[i]])>> :
        i \in 1..(Len(order) - 1)}

\* C26: list_available_chunks on an archive with at least one entry sorts
\* the entries by offset; when an entry starts before the end of the
\* previous one it returns a ParsingError; otherwise it records as free
\* exactly the gaps between consecutive entries, sets end_offset to the end
\* of the last entry, and the resulting list has map and set in lockstep
\* and no two adjacent free chunks.
C26_ListAvailableChunksOfArchive ==
    [][(grf_called = {} /\ grf_called' = {"open"} /\ DOMAIN layout.entries # {}
            /\ GrfArchiveOpen(ArchiveFile(layout)).tag = "Ok") =>
         \E order \in EntriesSortedByOffset(OnDisk) :
            IF \E g \in GapsOf(OnDisk, order) : g[2] < 0
            THEN grf_ret' = ParsingError
            ELSE LET l == builder'.chunks
                 IN  /\ grf_ret' = Ok(0)
                     /\ {<<o, l.chunks[o]>> : o \in DOMAIN l.chunks} = GapsOf(OnDisk, order)
                     /\ l.end_offset = EndOf(OnDisk[order[Len(order)]])
                     /\ l.sizes = {<<l.chunks[o], o>> : o \in DOMAIN l.chunks}
                     /\ \A o1, o2 \in DOMAIN l.chunks :
                           o1 # o2 => o1 + l.chunks[o1] # o2]_vars


\* the cursor read at the filter step is readable and some entry of the
\* fetched list carries its index
CursorMatches(list, c) ==
    c.kind = "ok" /\ \E i \in DOMAIN list : list[i].index = c.last_patch_index

\* the entries of the list whose index is above the cached one
AboveCursor(list, c) ==
    LET Above(x) == x.index > c.last_patch_index
    IN  SelectSeq(list, Above)

\* C27: the filter step removes every patch whose index is at most the
\* cached index if and only if a readable cursor exists and some entry of
\* the fetched list has an index equal to it; when the cursor is missing,
\* unreadable or matches no entry, the whole fetched list goes to the
\* download stage.
C27_FilterIffCursorMatches ==
    [][(pc = "fetch" /\ pc' = "download") =>
          IF CursorMatches(fetched', cache)
          THEN patch_list' = AboveCursor(fetched', cache)
          ELSE patch_list' = fetched']_vars

C27_Witness ==
    /\ pc = "download"
    /\ cache.kind = "ok"
    /\ fetched # patch_list
    /\ patch_list # <<>>


\* how many times x occurs in the sequence s
Occurrences(s, x) == Cardinality({i \in DOMAIN s : s[i] = x})

\* how many of the downloads in flight are of the patch x
InFlightOf(x) == Cardinality({i \in in_flight : patch_list[i] = x})

\* C28: at every moment of the download stage at most 32 patch downloads
\* are in flight, and every patch of the filtered list is downloaded
\* exactly once when the stage succeeds: each patch the stream has handed
\* out is either in flight or collected, once, and the stage ends with
\* every patch of the list collected.
C28_BoundedDownloadsEachOnce ==
    /\ Cardinality(in_flight) <= 32
    /\ in_flight \subseteq 1..started
    /\ started <= Len(patch_list)
    /\ \A i \in 1..Len(patch_list) :
          Occurrences(vec, patch_list[i]) + InFlightOf(patch_list[i])
              = Occurrences(SubSeq(patch_list, 1, started), patch_list[i])
    /\ (pc = "apply" \/ (pc = "download" /\ Len(vec) = Len(patch_list))) =>
          /\ in_flight = {}
          /\ \A i \in 1..Len(patch_list) :
                Occurrences(vec, patch_list[i]) = Occurrences(patch_list, patch_list[i])

\* the limit holds a download back: 32 are in flight, one has completed and
\* a patch is still to be requested
C28_Witness ==
    /\ pc = "download"
    /\ Cardinality(in_flight) = 32
    /\ started < Len(patch_list)
    /\ Len(vec) > 0


\* a step of the download stage in which a download completes, the pack
\* being accepted or not
DownloadCompletes ==
    pc = "download" /\ (vec' # vec \/ (pc' = "done" /\ rx' = rx))

\* the step collects the pack
PackAccepted == pc' = "download" /\ vec' = Append(vec, vec'[Len(vec')])

\* the step fails the download stage
StageFails ==
    /\ pc' = "done"
    /\ vec' = vec
    /\ ui' = Append(ui, Error("Failed to download patches"))

\* C29: during integrity verification a pack without data.integrity
\* (is_valid fails with EntryNotFound) is accepted as valid; is_valid
\* returning Ok(false) marks the pack corrupt (is_archive_valid returns
\* false and the stage fails); any other error of is_valid fails the
\* download stage.
C29_IntegrityVerdicts ==
    [][(DownloadCompletes /\ check_integrity
            /\ pack'.body \in PackBodies \ {"not_thor"}) =>
          /\ is_valid(pack'.body) = "EntryNotFound" =>
                pack'.ret = "Ok(true)" /\ PackAccepted
          /\ is_valid(pack'.body) = "Ok(true)" =>
                pack'.ret = "Ok(true)" /\ PackAccepted
          /\ is_valid(pack'.body) = "Ok(false)" =>
                pack'.ret = "Ok(false)" /\ StageFails
          /\ is_valid(pack'.body) = "Err" =>
                pack'.ret = "Err" /\ StageFails]_vars

C29_Witness ==
    /\ check_integrity
    /\ pc = "done"
    /\ pack.body = "crc_mismatch"
    /\ Len(vec) > 0


\* the paths of the original archive the patch does not remove
KeptPaths == {p \in DOMAIN original : ~(p \in DOMAIN patch /\ patch[p].is_removed)}

\* the paths the patch brings: neither removals nor data.integrity
PatchPaths == {p \in DOMAIN patch : ~patch[p].is_removed /\ p # "data.integrity"}

\* C30: after a successful out-of-place patch the target GRF holds exactly
\* the original paths the THOR does not remove united with the THOR paths
\* that are neither removals nor data.integrity; the content of a path the
\* THOR brings comes from the THOR, that of the others from the original.
C30_OopMergesOriginalAndPatch ==
    (oop_pc = "returned" /\ oop_ret.tag = "Ok") =>
        /\ target = "new"
        /\ Archive.tag = "Ok"
        /\ DOMAIN Archive.val = KeptPaths \cup PatchPaths
        /\ \A p \in KeptPaths \cup PatchPaths :
              read_file_content(obj, Archive.val[p])
                  = Ok(IF p \in PatchPaths THEN patch[p].data ELSE original[p])


\* the offsets below end the list l has free: those of its chunks and those
\* from end_offset on
FreeBytes(l, end) ==
    {o \in 0..end :
        \/ o >= l.end_offset
        \/ \E c \in DOMAIN l.chunks : c <= o /\ o < c + l.chunks[c]}

\* the offsets of the slot recorded for an entry of the builder
SlotBytes(entry) == {o \in 0..(entry.offset + entry.size_compressed) :
                        entry.offset <= o /\ o < entry.offset + entry.size_compressed}

\* an offset beyond every chunk and every slot of the builder
Horizon ==
    LET ends == {builder.chunks.end_offset}
                \cup {c + builder.chunks.chunks[c] : c \in DOMAIN builder.chunks.chunks}
                \cup {builder.entries[q].offset + builder.entries[q].size_compressed :
                         q \in DOMAIN builder.entries}
    IN  CHOOSE e \in ends : \A x \in ends : x <= e

\* C31: remove_file on a path that is not in the builder's index returns
\* false and leaves the index and the allocator state unchanged; on a
\* present path it returns true, removes only that path and frees exactly
\* the slot recorded for it.
C31_RemoveFileFrame ==
    [][RemoveFile =>
         \E relative_path \in Paths :
            /\ expected' = MapRemove(expected, relative_path)
            /\ IF relative_path \notin DOMAIN builder.entries
               THEN /\ grf_ret' = Ok(0)
                    /\ builder' = builder
               ELSE /\ grf_ret' = Ok(1)
                    /\ builder'.entries = MapRemove(builder.entries, relative_path)
                    /\ FreeBytes(builder'.chunks, Horizon)
                          = FreeBytes(builder.chunks, Horizon)
                               \cup SlotBytes(builder.entries[relative_path])
            /\ obj' = obj]_vars

(***************************************************************************)
(* Claims about the idle stage, checked under SpecOrch.                    *)
(***************************************************************************)
\* the commands the idle stage consumes: those sent up to and including
\* the first Start
StartsSent == {i \in DOMAIN arrived : arrived[i].cmd = "Start"}
FirstStart == CHOOSE i \in StartsSent : \A j \in StartsSent : i <= j
CancelAfterStart ==
    /\ StartsSent # {}
    /\ \E i \in DOMAIN arrived : i > FirstStart /\ IsCancel(arrived[i].cmd)

\* C32: while the orchestrator is idle, a command other than Start is
\* consumed and changes nothing but the channel (the task stays idle and no
\* status is dispatched); a run ends with 'Patching was canceled' only if a
\* CancelUpdate or Quit was sent after the Start that began it; and when the
\* channel is closed while idle the task ends with no status dispatched.
C32_IdleDiscardsCommands ==
    /\ [](pc = "exited" => ui = <<>>)
    /\ []((pc = "done" /\ LastStatus = Canceled) => CancelAfterStart)
    /\ [][(pc = "idle" /\ rx # <<>> /\ Head(rx) # "Start") =>
             /\ pc' = "idle"
             /\ rx' \in {rx, Tail(rx), Append(rx, "Start"), Append(rx, "CancelUpdate"),
                         Append(rx, "ApplyPatch"), Append(rx, "Quit")}
             /\ UNCHANGED <<ui, cache, patch_list, started, in_flight, vec,
                            pending_patch_queue, patch_number, applied,
                            fully_applied, mutated>>]_vars
    /\ [][(pc = "idle" /\ pc' = "exited") => (rx = <<>> /\ ui' = ui)]_vars

C32_Witness ==
    /\ pc = "done"
    /\ LastStatus.status = "Ready"
    /\ applied # <<>>
    /\ Len(arrived) >= 2
    /\ IsCancel(arrived[1].cmd)
    /\ arrived[2].cmd = "Start"

\* C33: no patch is applied (or attempted) before every patch of the
\* filtered list has finished downloading, and a run in which a download
\* fails applies no patch, whatever downloads had completed before.
C33_NoApplyBeforeAllDownloaded ==
    /\ [](applied # <<>> =>
            /\ Len(vec) = Len(patch_list)
            /\ in_flight = {}
            /\ started = Len(patch_list))
    /\ []((pc = "done" /\ LastStatus = Error("Failed to download patches")) =>
            /\ applied = <<>>
            /\ cache = cache0)
    /\ [][(pc = "download" /\ pc' = "apply") => Len(vec) = Len(patch_list)]_vars

\* a download failed after the download of an earlier patch had completed
C33_Witness ==
    /\ pc = "done"
    /\ LastStatus = Error("Failed to download patches")
    /\ rx = <<>>
    /\ arrived = <<[cmd |-> "Start", at |-> "idle"]>>
    /\ Len(patch_list) = 2
    /\ Len(vec) = 1
    /\ vec[1].index < patch_list[2].index
    /\ applied = <<>>

(***************************************************************************)
(* Claims about the in-place patch, checked under SpecIp.                  *)
(***************************************************************************)
\* the finish run when the builder was dropped has failed
FinalizationFailed == dropped /\ builder.finished /\ grf_ret.tag # "Ok"

\* C34: an in-place GRF patch returns an error whenever writing the file
\* table or the header during finalization fails: when it has returned Ok
\* (the cursor is then advanced to the patch's index), the target GRF has
\* been finalized successfully and opens as an archive.
C34_IpReturnsFinalizationError ==
    (ip_pc = "returned" /\ ip_ret.tag = "Ok") =>
        /\ ~FinalizationFailed
        /\ Archive.tag = "Ok"

(***************************************************************************)
(* Out-of-place patches applied again and again to the same target         *)
(* (apply_patch_to_grf, patching.rs:37-52, called once per attempt).       *)
(***************************************************************************)
\* what the archive the last attempt has written holds: path -> data
ContentOf(f) ==
    [p \in DOMAIN GrfArchiveOpen(f).val |->
        read_file_content(f, GrfArchiveOpen(f).val[p]).val]

\* apply_patch_to_grf is called again after an attempt has returned, with Ok
\* or with an error: the files are as that attempt has left them, and a
\* missing target is created empty when create_if_needed is set.  A target
\* the last attempt has completely written is the archive the next attempt
\* starts from; one it has not is a partial file.
OopAgain ==
    /\ oop_pc = "returned"
    /\ attempts < MaxAttempts
    /\ attempts' = attempts + 1
    /\ \E create_if_needed \in BOOLEAN :
       \E left \in {IF target # "new" THEN target
                    ELSE IF PatchedArchiveWritten THEN "original" ELSE "partial"} :
          /\ target' = IF left = "absent" /\ create_if_needed THEN "created" ELSE left
          /\ original' = IF target = "new" /\ left = "original"
                         THEN ContentOf(obj) ELSE original
    /\ oop_pc' = "rename"
    /\ merge_entries' = <<>>
    /\ oop_ret' = Ok(0)
    /\ dropped' = FALSE
    /\ grf_ret' = Ok(0)
    /\ UNCHANGED <<backup, patch>>
    /\ UNCHANGED <<builder, obj, expected, grf_calls, grf_called, debug_assertions,
                   finishes>>
    /\ UNCHANGED <<allocVars, orchVars, thorVars, readVars>>

NextRetry == NextOop \/ OopAgain

SpecRetry == InitPatch /\ [][NextRetry]_vars

\* C35: across any number of out-of-place patch attempts on the same target,
\* each of which may fail at any step after the rename, a complete copy of
\* the last successfully patched (or original) archive always exists at the
\* target path or at the backup path.
C35_CompleteCopyAlwaysExists ==
    \/ target = "original"
    \/ backup = "original"
    \/ target = "new" /\ PatchedArchiveWritten

(***************************************************************************)
(* The same patch applied to the same version 2.0 archive in place and     *)
(* then, to a fresh copy of that archive, out of place.                    *)
(***************************************************************************)
\* the archives both methods are given: as GrfArchiveBuilder writes them,
\* every entry stored compressed and no two entries sharing a byte
BothLayouts ==
    {l \in IpLayouts :
        /\ \A p \in DOMAIN l.entries : l.entries[p].stored
        /\ \A p, q \in DOMAIN l.entries :
              p # q => ~Overlap(<<l.entries[p].offset, Len(Stored(l.entries[p]))>>,
                                <<l.entries[q].offset, Len(Stored(l.entries[q]))>>)}

\* the patches both methods are given (data.integrity is skipped by both)
BothPatches == {t \in Patches : "data.integrity" \notin DOMAIN t}

\* what a client reads from the archive in the file: per path, the size and
\* the decompressed content
ArchiveView(f) ==
    IF GrfArchiveOpen(f).tag # "Ok"
    THEN [tag |-> "Unreadable", val |-> <<>>]
    ELSE Ok([p \in DOMAIN GrfArchiveOpen(f).val |->
                [size |-> GrfArchiveOpen(f).val[p].size,
                 content |-> read_file_content(f, GrfArchiveOpen(f).val[p])]])

InitBoth ==
    /\ layout \in BothLayouts
    /\ original = [p \in DOMAIN layout.entries |-> layout.entries[p].data]
    /\ patch \in BothPatches
    /\ oop_pc = "waiting"
    /\ target = "original"
    /\ backup = "absent"
    /\ merge_entries = <<>>
    /\ oop_ret = Ok(0)
    /\ attempts = 1
    /\ InitAlloc /\ InitOrch /\ InitGrf /\ InitThor /\ InitRead
    /\ check_integrity

\* the in-place patch has returned with no file operation having failed:
\* its outcome is kept and the out-of-place patch of the archive begins
IpThenOop ==
    /\ ip_pc = "returned"
    /\ oop_pc = "waiting"
    /\ ip_ret # IoError
    /\ grf_ret # IoError
    /\ ip_result' = [tag |-> "Returned",
                     val |-> [ret |-> ip_ret, archive |-> ArchiveView(obj)]]
    /\ oop_pc' = "rename"
    /\ dropped' = FALSE
    /\ grf_ret' = Ok(0)
    /\ UNCHANGED <<target, backup, original, patch, merge_entries, oop_ret, attempts>>
    /\ UNCHANGED <<builder, obj, expected, grf_calls, grf_called, debug_assertions,
                   finishes>>
    /\ UNCHANGED <<layout, opened, ip_pc, thor_entries, ip_ret>>
    /\ UNCHANGED <<allocVars, orchVars, thorVars>>

NextBoth == NextIp \/ IpThenOop \/ NextOop

SpecBoth == InitBoth /\ [][NextBoth]_vars

\* both patches have returned and no file operation has failed in either
BothReturned ==
    /\ ip_result.tag = "Returned"
    /\ oop_pc = "returned"
    /\ oop_ret # IoError
    /\ grf_ret # IoError

\* C36: for the same version 2.0 GRF and the same THOR pack, in-place and
\* out-of-place patching both succeed or both fail, and when they succeed
\* the two archives hold the same paths, with the same size and the same
\* decompressed content for every path.
C36_InPlaceEqualsOutOfPlace ==
    BothReturned =>
        /\ (ip_result.val.ret.tag = "Ok") <=> (oop_ret.tag = "Ok")
        /\ oop_ret.tag = "Ok" => ip_result.val.archive = ArchiveView(obj)

(***************************************************************************)
(* Claims about commands received during the download stage (SpecOrch).    *)
(***************************************************************************)
\* the download stage takes a command that is not a cancellation from the
\* channel
OtherCommandReceived ==
    /\ pc = "download"
    /\ rx # <<>>
    /\ ~IsCancel(Head(rx))
    /\ rx' = Tail(rx)

\* C37: a command that is not a cancellation (a repeated Start, or
\* ApplyPatch) received while downloads are in flight does not terminate
\* the run: the download stage goes on (no terminal status is dispatched,
\* the downloads started and collected so far are kept).
C37_OtherCommandKeepsDownloading ==
    [][OtherCommandReceived =>
          /\ pc' = "download"
          /\ ui' = ui
          /\ UNCHANGED <<patch_list, started, in_flight, vec>>]_vars

\* download_directory.join(patch_info.file_name): the scratch file of a patch
local_file_path(patch_info) == <<"download_directory", patch_info.file_name>>

\* C38: no two downloads that are in flight at the same time write to the
\* same scratch file, whatever patch list the server has returned (two
\* lines with the same file name included).
C38_InFlightScratchFilesDistinct ==
    \A i, j \in in_flight :
        i # j => local_file_path(patch_list[i]) # local_file_path(patch_list[j])

(***************************************************************************)
(* Termination of a run.  The patching task is the only task of a          *)
(* current-thread runtime (main.rs:91-98): it takes its next step whenever *)
(* it has one, which is weak fairness of its steps; the commands are sent  *)
(* by the UI thread, of which nothing is assumed.                          *)
(***************************************************************************)
\* the in-place patch of the archive panics: in GrfArchiveBuilder::open, or
\* in the finish the builder's drop runs when the function returns
InPlacePanics(l) ==
    \E r \in {GrfArchiveBuilder_open(ArchiveFile(l), <<>>)} :
        \/ r.ret = Panic
        \/ r.ret.tag = "Ok" /\ finish(r.b, r.f).ret = Panic

\* the targets of a patch: the empty archive of each version
EmptyTargets == {[version |-> v, entries |-> <<>>] : v \in Versions}

\* apply_patches, one iteration: apply_patch_to_grf panics on the target;
\* the panic unwinds patcher_thread_routine and the thread, and no status
\* is dispatched
ApplyPanics ==
    /\ InApplyLoop
    /\ ~check_for_cancellation(rx).interrupted
    /\ rx' = check_for_cancellation(rx).rx
    /\ \E l \in EmptyTargets : InPlacePanics(l)
    /\ applied' = Append(applied, pending_patch.index)
    /\ pc' = "panicked"
    /\ UNCHANGED <<check_integrity, cache, patch_list, started, in_flight, vec,
                   pending_patch_queue, patch_number, ui, runs, sent, cache0,
                   fully_applied, mutated, corrupt_found>>
    /\ UNCHANGED <<allocVars, grfVars, thorVars, arrived, fetched, pack>>

\* the steps of the patching task
PatcherSteps ==
    \/ WaitForStartCommand \/ WaitForStartCommandClosed
    \/ FetchFails \/ FetchPatchList
    \/ StartDownload \/ FinishDownload \/ DownloadFails \/ DownloadInterrupted
    \/ DownloadsCollected \/ ApplyCanceled \/ ApplyOpenFails \/ ApplyFails
    \/ ApplyPanics \/ ApplySucceeds \/ ApplyDone

NextLive == SendCommand \/ PatcherSteps

SpecLive == InitRelease /\ [][NextLive]_vars /\ WF_vars(PatcherSteps)

\* C39: once started, a run over a finite patch list terminates: the
\* orchestrator eventually dispatches Ready or Error, also when commands
\* keep arriving on the channel.
C39_StartedRunTerminates == (pc = "fetch") ~> (Terminals # {})

=============================================================================
